---------------------------- MODULE Spec2Model ----------------------------
(***************************************************************************)
(* A model of the bounded pagination crawler (src/src/reddit_html_client.py)*)
(* and of the rule-based risk scoring (src/src/scoring/).                  *)
(*                                                                         *)
(* The crawl target is an external HTTP server: every response (status and *)
(* page body) is chosen by the environment when the request is issued.     *)
(* One action is one stretch of client code between two HTTP requests.     *)
(***************************************************************************)
EXTENDS Integers, Sequences, FiniteSets, TLC

\* ------------------------------------------------------------------ bounds
\* Things (item nodes) on one served page.
MaxPerPage == 2
\* Pages the server serves with status 200 during one client call.
MaxPages == 3
\* Largest max_posts / max_items argument tried (arguments range from -1).
MaxCap == 3
\* Timestamps of served things and cutoffs are drawn from 1..MaxTs.
MaxTs == 3

\* ------------------------------------------------------- program constants
\* ScraperConfig.max_retries
max_retries == 3

\* ------------------------------------------------------------ basic values
NoUrl == <<"", 0>>

None == [some |-> FALSE, val |-> 0]

Some(v) == [some |-> TRUE, val |-> v]

Absent == [tag |-> "absent", val |-> 0]

Garbage == [tag |-> "bad", val |-> 0]

Num(n) == [tag |-> "num", val |-> n]

NoPage == [ok |-> FALSE, url |-> NoUrl, things |-> <<>>, next |-> NoUrl]

Min(a, b) == IF a <= b THEN a ELSE b

Take(s, n) == IF n <= 0 THEN <<>> ELSE SubSeq(s, 1, Min(n, Len(s)))

RECURSIVE Concat(_)
Concat(ss) == IF ss = <<>> THEN <<>> ELSE Head(ss) \o Concat(Tail(ss))

\* ------------------------------------------------------------------ state
VARIABLES
    pc,            \* "idle", "get" (inside _get), "got" (_get returned), "done"
    mode,          \* "none", "A" (fetch_subreddit_new), "B" (get_user_history)
    max_arg,       \* the max_posts / max_items argument of the client call
    cutoff_ts,     \* get_user_history: since.timestamp()
    kind,          \* the running chain: "feed", "submission", "comment"
    stream_max,    \* _fetch_user_stream: its max_items argument
    url,           \* the loop variable url of the running chain
    collected,     \* the loop variable collected of the running chain
    attempt,       \* _get: iterations of the retry loop completed
    slept,         \* _get: sleeps done inside the current call
    lastStatus,    \* _get: outcome of the last request of the current call
    html,          \* the value _get returned (NoPage for None)
    history,       \* get_user_history: the local list history
    result,        \* the value the client call returned
    pages,         \* per chain, the pages served with status 200, in order
    outcome,       \* per chain: "none", "running" or the reason it stopped
    returned,      \* per chain, the list the chain returned
    budget,        \* per chain, the cap the chain was started with
    since_fetch    \* what the client call did last: "none", "request" (a page
                   \* request was answered) or "sleep" (request_delay_seconds)

crawlVars == <<pc, mode, max_arg, cutoff_ts, kind, stream_max, url, collected,
               attempt, slept, lastStatus, html, history, result, pages,
               outcome, returned, budget, since_fetch>>

VARIABLES
    cfg,                    \* the ScoringConfig in force
    scored,                 \* "none", "post" or "feed post" (score_post ran),
                            \* "users" (score_users ran)
    body_text,              \* _parse_subreddit_page: body_text of the scored post
    post,                   \* score_post: its argument
    risk,                   \* score_post: the PostRisk it returned
    users_history,          \* score_users: username -> list of UserPost
    posts_fallback_scores,  \* score_users: username -> list of scores
    users_scored,           \* score_users: the username -> UserRisk it returned
    args_after              \* score_users: its two arguments when it returned

scoreVars == <<cfg, scored, body_text, post, risk, users_history,
               posts_fallback_scores, users_scored, args_after>>

VARIABLES
    stage,                  \* "none", or the step that ran: "load", "collect", "enrich", "pipeline", "export"
    loader,                 \* the loader that ran
    file_records,           \* the records of the file it read
    load_result             \* what it returned, or that it raised

loadVars == <<loader, file_records, load_result>>

VARIABLES
    client,                 \* Collector.client: "html", "api" or "protocol"
    limits,                 \* max_posts_per_subreddit and max_total_posts
    visits,                 \* the fetch_new_posts calls of collect_all, in order
    all_posts,              \* collect_all: all_posts
    collect_end             \* "none", "saved" (_save_posts ran) or "raised"

collectVars == <<client, limits, visits, all_posts, collect_end>>

VARIABLES
    raw_authors,            \* run_enrichment: the author fields of posts
    existing,               \* run_enrichment: existing (the cache that was loaded)
    authors_to_fetch,       \* enrich_all_users: authors_to_fetch
    enrich_visits,          \* the get_user_history calls, in order
    users_enriched_new,     \* enrich_all_users: users_enriched_new
    combined,               \* run_enrichment: combined (what is saved)
    enrich_end              \* "none", "returned", "saved" or "raised"

enrichVars == <<raw_authors, existing, authors_to_fetch, enrich_visits,
                users_enriched_new, combined, enrich_end>>

VARIABLES
    step_log,               \* run_pipeline: the steps started, returned and raised
    exit_status             \* the exit status of the process, -1 while it runs

pipelineVars == <<step_log, exit_status>>

VARIABLES
    scored_records,         \* run_score.main: records
    posts_scored_csv,       \* the table write_csv wrote: header and rows
    fallback_loaded         \* what _load_posts_fallback_scores returned

exportVars == <<scored_records, posts_scored_csv, fallback_loaded>>

VARIABLES
    parser,                 \* "none", or the page parser that ran: "subreddit", "user"
    parse_page,             \* the page it was given
    parse_cutoff,           \* _parse_user_page: cutoff_ts
    parse_result            \* what it returned

parseVars == <<parser, parse_page, parse_cutoff, parse_result>>

stageVars == <<stage, loadVars, collectVars, enrichVars, pipelineVars, exportVars,
               parseVars>>

vars == <<crawlVars, scoreVars, stageVars>>

Chains == {"feed", "submission", "comment"}

StopReasons == {"capReached", "noNextPage", "cutoffHit", "fetchFailed"}

\* ------------------------------------------------------------ page parser
\* A thing is one <div class="thing"> node of a served page:
\*   promoted        data-promoted = "true"
\*   data_timestamp  the data-timestamp attribute (Absent, Garbage or Num)
\*   time_datetime   the datetime attribute of a nested <time> (same shapes)
\*   fullname        data-fullname or id: None, or Some(<<prefix, code>>)
\* Timestamps are counted in units of 10^9 seconds, so that the source's
\* magnitude threshold 10_000_000_000 is 10 units.
MsThreshold == 10

\* Milliseconds per second (ts_int / 1000.0).
MsPerSecond == 1000

\* Mutant: a thing without timestamp gets the timestamp 0.
ExtractCreatedUtc_ZeroDefault(thing) ==
    IF thing.data_timestamp.tag = "num" THEN Some(thing.data_timestamp.val)
    ELSE IF thing.time_datetime.tag = "num" THEN Some(thing.time_datetime.val)
    ELSE Some(0)

\* _extract_created_utc
ExtractCreatedUtc(thing) ==
    IF thing.data_timestamp.tag = "num"
    THEN IF thing.data_timestamp.val > MsThreshold
         THEN Some(thing.data_timestamp.val \div MsPerSecond)
         ELSE Some(thing.data_timestamp.val)
    ELSE IF thing.time_datetime.tag = "absent" THEN None
    ELSE IF thing.time_datetime.tag = "num" THEN Some(thing.time_datetime.val)
    ELSE None

\* fullname.split("_")[-1]
ItemId(fullname) == fullname[Len(fullname)]

MkItem(thing, created, k) ==
    [id |-> ItemId(thing.fullname.val), created_utc |-> created, kind |-> k]

\* The loop of _parse_subreddit_page over soup.find_all("div", class_="thing").
RECURSIVE SubredditPageLoop(_, _, _)
SubredditPageLoop(things, i, posts) ==
    IF i > Len(things) THEN posts
    ELSE LET thing == things[i]
             created == ExtractCreatedUtc(thing)
         IN  IF thing.promoted THEN SubredditPageLoop(things, i + 1, posts)
             ELSE IF ~created.some THEN SubredditPageLoop(things, i + 1, posts)
             ELSE IF ~thing.fullname.some
                  THEN SubredditPageLoop(things, i + 1, posts)
             ELSE SubredditPageLoop(things, i + 1,
                      Append(posts, MkItem(thing, created.val, "post")))

\* _parse_subreddit_page: (posts, next_url)
ParseSubredditPage(page) ==
    [posts |-> SubredditPageLoop(page.things, 1, <<>>), next_url |-> page.next]

\* The loop of _parse_user_page: stops at the first thing older than cutoff.
RECURSIVE UserPageLoop(_, _, _, _, _)
UserPageLoop(things, i, items, k, cutoff) ==
    IF i > Len(things) THEN [items |-> items, stop |-> FALSE]
    ELSE LET thing == things[i]
             created == ExtractCreatedUtc(thing)
         IN  IF ~created.some THEN UserPageLoop(things, i + 1, items, k, cutoff)
             ELSE IF created.val < cutoff THEN [items |-> items, stop |-> TRUE]
             ELSE IF ~thing.fullname.some
                  THEN UserPageLoop(things, i + 1, items, k, cutoff)
             ELSE UserPageLoop(things, i + 1,
                      Append(items, MkItem(thing, created.val, k)), k, cutoff)

\* Mutant: the stop at the first old thing is not passed on to the caller.
ParseUserPage_IgnoreStop(page, k, cutoff) ==
    LET r == UserPageLoop(page.things, 1, <<>>, k, cutoff)
    IN  [items |-> r.items, next_url |-> page.next, stop |-> FALSE]

\* _parse_user_page: (items, next_url, stop_pagination)
ParseUserPage(page, k, cutoff) ==
    LET r == UserPageLoop(page.things, 1, <<>>, k, cutoff)
    IN  [items |-> r.items,
         next_url |-> IF r.stop THEN NoUrl ELSE page.next,
         stop |-> r.stop]

\* ------------------------------------------------------------- the server
\* What the server puts on a page during a crawl: well-formed things with a
\* timestamp in seconds (0 stands for a thing without any timestamp).
ThingKinds == 1..MaxTs

ServedThing(tk, u, i) ==
    [promoted |-> FALSE,
     data_timestamp |-> IF tk = 0 THEN Absent ELSE Num(tk),
     time_datetime |-> Absent,
     fullname |-> Some(<<"t", <<u, i>>>>)]

Bodies == UNION {[1..n -> ThingKinds] : n \in 0..MaxPerPage}

\* The next-button of a page at u: none, or a link to the following page.
NextLocators(u) == {NoUrl, <<u[1], u[2] + 1>>}

ServedPages(u) ==
    {[ok |-> TRUE,
      url |-> u,
      things |-> [i \in 1..Len(b) |-> ServedThing(b[i], u, i)],
      next |-> n] : b \in Bodies, n \in NextLocators(u)}

\* 200, definitive absence (403, 404), another status, a network error.
Statuses == {200, 403, 404, 500, -1}

PagesServed == Len(pages["feed"]) + Len(pages["submission"]) + Len(pages["comment"])

\* --------------------------------------------------------- crawl controller
CrawlInit ==
    /\ pc = "idle"
    /\ mode = "none"
    /\ max_arg = 0
    /\ cutoff_ts = 0
    /\ kind = "none"
    /\ stream_max = 0
    /\ url = NoUrl
    /\ collected = <<>>
    /\ attempt = 0
    /\ slept = 0
    /\ lastStatus = 0
    /\ html = NoPage
    /\ history = <<>>
    /\ result = <<>>
    /\ pages = [c \in Chains |-> <<>>]
    /\ outcome = [c \in Chains |-> "none"]
    /\ returned = [c \in Chains |-> <<>>]
    /\ budget = [c \in Chains |-> 0]
    /\ since_fetch = "none"

\* history.sort(key=lambda item: item.created_utc, reverse=True): a stable
\* sort, so items of equal timestamp keep their order.
RECURSIVE InsertNewestFirst(_, _)
InsertNewestFirst(sorted, item) ==
    IF sorted = <<>> THEN <<item>>
    ELSE IF Head(sorted).created_utc >= item.created_utc
         THEN <<Head(sorted)>> \o InsertNewestFirst(Tail(sorted), item)
         ELSE <<item>> \o sorted

\* Mutant: the merged list is returned as it was collected.
SortNewestFirst_Unsorted(items) == items

RECURSIVE SortNewestFirst(_)
SortNewestFirst(items) ==
    IF items = <<>> THEN <<>>
    ELSE InsertNewestFirst(SortNewestFirst(SubSeq(items, 1, Len(items) - 1)),
                           items[Len(items)])

\* Mutant: the whole page is appended, whatever the cap.
AppendUpTo_NoCap(coll, page_posts, max_posts) == coll \o page_posts

\* for post in page_posts: if len(collected) >= max_posts: break; append
RECURSIVE AppendUpTo(_, _, _)
AppendUpTo(coll, page_posts, max_posts) ==
    IF page_posts = <<>> \/ Len(coll) >= max_posts THEN coll
    ELSE AppendUpTo(Append(coll, Head(page_posts)), Tail(page_posts), max_posts)

\* Mutant: a failed fetch discards what was collected.
AfterFailedFetch_Discard(coll) == <<>>

\* if html is None: break -- the loop ends and collected is what it was
AfterFailedFetch(coll) == coll

\* Mutant: one iteration too many.
RetriesExhausted_OffByOne(n) == n > max_retries

\* for _ in range(max_retries): the loop is over after n iterations
RetriesExhausted(n) == n >= max_retries

\* Mutant: only 404 is a definitive absence.
IsDefinitiveAbsence_Only404(status) == status = 404

\* resp.status_code in {403, 404}
IsDefinitiveAbsence(status) == status \in {403, 404}

\* Mutant: the cap is never seen as reached.
CapAccumulated_Never(coll, cap) == FALSE

\* len(collected) >= max_posts / len(collected) >= max_items
CapAccumulated(coll, cap) == Len(coll) >= cap

\* (max_items + 1) // 2
MaxSubmissions(max_items) == (max_items + 1) \div 2

\* The call self._get(url) from the running chain: the retry loop starts.
EnterGet(u, coll) ==
    /\ url' = u
    /\ collected' = coll
    /\ attempt' = 0
    /\ slept' = 0
    /\ lastStatus' = 0
    /\ html' = NoPage
    /\ pc' = IF RetriesExhausted(0) THEN "got" ELSE "get"

\* One iteration of the retry loop of _get: one request and its response.
GetRequest ==
    /\ pc = "get"
    /\ \E status \in Statuses :
          /\ lastStatus' = status
          /\ attempt' = attempt + 1
          /\ \/ /\ status = 200
                /\ PagesServed < MaxPages
                /\ \E page \in ServedPages(url) :
                      /\ html' = page
                      /\ pages' = [pages EXCEPT ![kind] = Append(@, page)]
                /\ pc' = "got"
                /\ slept' = slept
                /\ since_fetch' = "request"
             \/ /\ status # 200
                /\ IsDefinitiveAbsence(status)
                /\ html' = NoPage
                /\ pc' = "got"
                /\ since_fetch' = "request"
                /\ UNCHANGED <<slept, pages>>
             \/ /\ status # 200
                /\ ~IsDefinitiveAbsence(status)
                /\ slept' = slept + 1
                /\ since_fetch' = "sleep"
                /\ html' = NoPage
                /\ pc' = IF RetriesExhausted(attempt + 1) THEN "got" ELSE "get"
                /\ UNCHANGED pages
    /\ UNCHANGED <<mode, max_arg, cutoff_ts, kind, stream_max, url, collected,
                   history, result, outcome, returned, budget>>
    /\ UNCHANGED <<scoreVars, stageVars>>

\* A target that answers without end: its listings have the pages 1..MaxPages,
\* and the next-button of a page may link to any of them, the page itself and
\* earlier pages included. A page holds at most one thing.
TargetLocators(u) == {NoUrl} \cup {<<u[1], k>> : k \in 1..MaxPages}

TargetPages(u) ==
    {[ok |-> TRUE,
      url |-> u,
      things |-> [i \in 1..Len(b) |-> ServedThing(b[i], u, i)],
      next |-> n] : b \in {<<>>} \cup {<<tk>> : tk \in ThingKinds},
                    n \in TargetLocators(u)}

\* One iteration of the retry loop of _get against such a target; the pages
\* served are not recorded.
GetRequestOfTarget ==
    /\ pc = "get"
    /\ \E status \in Statuses :
          /\ lastStatus' = status
          /\ attempt' = attempt + 1
          /\ \/ /\ status = 200
                /\ \E page \in TargetPages(url) : html' = page
                /\ pc' = "got"
                /\ slept' = slept
                /\ since_fetch' = "request"
             \/ /\ status # 200
                /\ IsDefinitiveAbsence(status)
                /\ html' = NoPage
                /\ pc' = "got"
                /\ since_fetch' = "request"
                /\ slept' = slept
             \/ /\ status # 200
                /\ ~IsDefinitiveAbsence(status)
                /\ slept' = slept + 1
                /\ since_fetch' = "sleep"
                /\ html' = NoPage
                /\ pc' = IF RetriesExhausted(attempt + 1) THEN "got" ELSE "get"
    /\ UNCHANGED <<mode, max_arg, cutoff_ts, kind, stream_max, url, collected,
                   history, result, outcome, returned, budget, pages>>
    /\ UNCHANGED <<scoreVars, stageVars>>

\* The client call returns value.
Return(value) ==
    /\ result' = value
    /\ pc' = "done"
    /\ attempt' = 0
    /\ slept' = 0
    /\ lastStatus' = 0
    /\ html' = NoPage
    /\ url' = NoUrl
    /\ collected' = <<>>

\* fetch_subreddit_new up to its first request.
FetchSubredditNew ==
    /\ pc = "idle"
    /\ \E max_posts \in -1..MaxCap :
          /\ mode' = "A"
          /\ max_arg' = max_posts
          /\ kind' = "feed"
          /\ budget' = [budget EXCEPT !["feed"] = max_posts]
          /\ IF 0 < max_posts
             THEN /\ EnterGet(<<"new", 1>>, <<>>)
                  /\ outcome' = [outcome EXCEPT !["feed"] = "running"]
                  /\ UNCHANGED <<result, returned>>
             ELSE /\ Return(<<>>)
                  /\ outcome' = [outcome EXCEPT !["feed"] = "capReached"]
                  /\ UNCHANGED returned
    /\ UNCHANGED <<cutoff_ts, stream_max, history, pages, since_fetch>>
    /\ UNCHANGED <<scoreVars, stageVars>>

\* fetch_subreddit_new from the return of _get to the next request or to
\* the return.
FetchSubredditNewPage ==
    /\ pc = "got"
    /\ mode = "A"
    /\ LET parsed == ParseSubredditPage(html)
           coll == IF html.ok THEN AppendUpTo(collected, parsed.posts, max_arg)
                   ELSE AfterFailedFetch(collected)
           reason == IF ~html.ok THEN "fetchFailed"
                     ELSE IF CapAccumulated(coll, max_arg) THEN "capReached"
                     ELSE IF parsed.next_url = NoUrl THEN "noNextPage"
                     ELSE "running"
       IN  IF reason # "running"
           THEN /\ Return(coll)
                /\ outcome' = [outcome EXCEPT !["feed"] = reason]
                /\ returned' = [returned EXCEPT !["feed"] = coll]
                /\ UNCHANGED since_fetch
           ELSE /\ EnterGet(parsed.next_url, coll)
                /\ since_fetch' = "sleep"
                /\ UNCHANGED <<result, outcome, returned>>
    /\ UNCHANGED <<mode, max_arg, cutoff_ts, kind, stream_max, history, pages,
                   budget>>
    /\ UNCHANGED <<scoreVars, stageVars>>

\* Mutant: the last page is not trimmed to the budget.
TrimPage_NoTrim(page_items, remaining) == page_items

\* page_items[:remaining] when the page holds more than the budget leaves
TrimPage(page_items, remaining) ==
    IF Len(page_items) > remaining THEN SubSeq(page_items, 1, remaining)
    ELSE page_items

\* remaining_for_comments = max_items - len(history)
RemainingForComments(max_items, hist) == max_items - Len(hist)

\* get_user_history after _fetch_user_stream returned items for the running
\* chain: extend history, then start the comments stream or sort and return.
\* Nothing is slept between the return of the submissions stream and the
\* first request of the comments stream.
StreamReturn(items, reason) ==
    LET hist == history \o items
    IN  /\ history' = hist
        /\ returned' = [returned EXCEPT ![kind] = items]
        /\ IF kind = "submission" /\ RemainingForComments(max_arg, hist) > 0
           THEN /\ kind' = "comment"
                /\ stream_max' = RemainingForComments(max_arg, hist)
                /\ budget' = [budget EXCEPT
                                 !["comment"] = RemainingForComments(max_arg, hist)]
                /\ outcome' = [outcome EXCEPT ![kind] = reason,
                                              !["comment"] = "running"]
                /\ EnterGet(<<"comments", 1>>, <<>>)
                /\ UNCHANGED result
           ELSE /\ Return(SortNewestFirst(hist))
                /\ outcome' = [outcome EXCEPT ![kind] = reason]
                /\ UNCHANGED <<kind, stream_max, budget>>

\* get_user_history up to its first request.
GetUserHistory ==
    /\ pc = "idle"
    /\ mode' = "B"
    /\ \E max_items \in -1..MaxCap :
          /\ max_arg' = max_items
          /\ IF max_items <= 0
             THEN /\ Return(<<>>)
                  /\ UNCHANGED <<cutoff_ts, kind, stream_max, outcome, budget>>
             ELSE /\ \E since \in 1..MaxTs : cutoff_ts' = since
                  /\ kind' = "submission"
                  /\ stream_max' = MaxSubmissions(max_items)
                  /\ budget' = [budget EXCEPT
                                   !["submission"] = MaxSubmissions(max_items)]
                  /\ outcome' = [outcome EXCEPT !["submission"] = "running"]
                  /\ EnterGet(<<"submitted", 1>>, <<>>)
                  /\ UNCHANGED result
    /\ UNCHANGED <<history, pages, returned, since_fetch>>
    /\ UNCHANGED <<scoreVars, stageVars>>

\* _fetch_user_stream from the return of _get to the next request or to the
\* return of the stream, and then get_user_history up to its next request
\* or its return.
FetchUserStreamPage ==
    /\ pc = "got"
    /\ mode = "B"
    /\ LET parsed == ParseUserPage(html, kind, cutoff_ts)
           remaining == stream_max - Len(collected)
           page_items == TrimPage(parsed.items, remaining)
           trimmed == Len(parsed.items) > remaining
           stop == parsed.stop \/ trimmed
           coll == collected \o page_items
           \* the iteration ends with url = next_url and the sleep
           continues == /\ html.ok /\ remaining > 0 /\ ~stop
                        /\ parsed.next_url # NoUrl
       IN  /\ since_fetch' = IF continues THEN "sleep" ELSE since_fetch
           /\ IF ~html.ok
              THEN StreamReturn(AfterFailedFetch(collected), "fetchFailed")
              ELSE IF remaining <= 0 THEN StreamReturn(collected, "capReached")
              ELSE IF parsed.stop THEN StreamReturn(coll, "cutoffHit")
              ELSE IF trimmed THEN StreamReturn(coll, "capReached")
              ELSE IF parsed.next_url = NoUrl THEN StreamReturn(coll, "noNextPage")
              ELSE IF CapAccumulated(coll, stream_max)
                   THEN StreamReturn(coll, "capReached")
              ELSE /\ EnterGet(parsed.next_url, coll)
                   /\ UNCHANGED <<kind, stream_max, history, result, outcome,
                                  returned, budget>>
    /\ UNCHANGED <<mode, max_arg, cutoff_ts, pages>>
    /\ UNCHANGED <<scoreVars, stageVars>>


\* ============================================================ risk scoring
\* ------------------------------------------------------- bounds (scoring)
\* Words of a post's text, and of its title.
MaxWords == 4
MaxTitleWords == 1

\* ------------------------------------------------------- exact arithmetic
\* Scores are exact rationals <<numerator, denominator>> in lowest terms.
RECURSIVE GCD(_, _)
GCD(a, b) == IF b = 0 THEN a ELSE GCD(b, a % b)

Rat(n, d) ==
    IF n = 0 THEN <<0, 1>>
    ELSE LET g == GCD(IF n < 0 THEN 0 - n ELSE n, d)
         IN  <<n \div g, d \div g>>

RAdd(a, b) == Rat(a[1] * b[2] + b[1] * a[2], a[2] * b[2])

RMul(a, b) == Rat(a[1] * b[1], a[2] * b[2])

RLe(a, b) == a[1] * b[2] <= b[1] * a[2]

RLt(a, b) == a[1] * b[2] < b[1] * a[2]

RMin(a, b) == IF RLe(a, b) THEN a ELSE b

RMax(a, b) == IF RLe(b, a) THEN a ELSE b

Zero == <<0, 1>>

One == <<1, 1>>

\* -------------------------------------------------------------- vocabulary
VIOLENT_KEYWORDS ==
    {"kill", "killing", "murder", "attack", "shoot", "shooting", "bomb",
     "bombing", "stab", "stabbing", "genocide", "execute", "execution",
     "lynch", "slaughter", "massacre", "terrorist", "terrorism"}

HATE_KEYWORDS ==
    {"racist", "racism", "nazi", "nazis", "hitler", "subhuman", "vermin",
     "garbage", "retard", "retarded", "scum", "freaks", "trash", "animals"}

INTENSIFIERS ==
    {"very", "really", "extremely", "super", "totally", "literally", "so",
     "utterly", "completely"}

\* THREAT_PATTERNS, each regular expression as the set of lowercase word
\* sequences it matches (its words are separated by one space).
THREAT_PATTERNS ==
    << {pre \o <<"going", "to", v>> :
           pre \in {<<"i'm">>, <<"im">>, <<"i", "m">>},
           v \in {"kill", "hurt", "beat", "destroy"}},
       {<<"i", "will", v>> : v \in {"kill", "hurt", "beat", "destroy"}},
       {<<"we", "should">> \o v :
           v \in {<<"kill">>, <<"bomb">>, <<"lynch">>, <<"wipe", "out">>}},
       {<<d, "to", "die">> : d \in {"deserve", "deserves"}},
       {<<"should", "be">> \o v :
           v \in {<<"killed">>, <<"shot">>, <<"bombed">>, <<"wiped", "out">>}} >>

\* The line break that joins title and body.
NL == "\n"

\* The words texts are written with: each is one whitespace-separated word.
Words == {"kill", "KILL-NAZI", "nazi", "very", "WOW", "deserve", "to", "die"}

\* w.lower() for the words of Words
Lower(w) == IF w = "KILL-NAZI" THEN "kill-nazi"
            ELSE IF w = "WOW" THEN "wow" ELSE w

\* WORD_RE.findall(w), lowercased: the \w+ runs of one word
WordTokens(w) == IF w = NL THEN <<>>
                 ELSE IF w = "KILL-NAZI" THEN <<"kill", "nazi">>
                 ELSE <<Lower(w)>>

\* is_allcaps(w): at least 3 letters, all of them uppercase
IsAllCaps(w) == w \in {"KILL-NAZI", "WOW"}

WordSeqs(n) == UNION {[1..k -> Words] : k \in 0..n}

\* --------------------------------------------------------------- helpers
RECURSIVE Strip(_)
Strip(t) ==
    IF t = <<>> THEN t
    ELSE IF Head(t) = NL THEN Strip(Tail(t))
    ELSE IF t[Len(t)] = NL THEN Strip(SubSeq(t, 1, Len(t) - 1))
    ELSE t

\* _extract_text: f"{title}\n{body}".strip()
ExtractText(p) == Strip(p.title \o <<NL>> \o p.text)

\* text.split()
SplitWords(text) == SelectSeq(text, LAMBDA w : w # NL)

\* _tokenize
Tokenize(text) == Concat([i \in 1..Len(text) |-> WordTokens(text[i])])

CountIn(tokens, set) == Len(SelectSeq(tokens, LAMBDA t : t \in set))

\* Mutant: the ratio is not clamped at 1.
HitsFeature_NoClamp(c) == Rat(c, 3)

\* _violent_feature, _hate_feature, _intensifier_feature: min(c / 3.0, 1.0)
HitsFeature(c) == RMin(Rat(c, 3), One)

\* _keyword_density
KeywordDensity(tokens, violent_count, hate_count) ==
    IF tokens = <<>> THEN Zero
    ELSE RMin(RMul(Rat(violent_count + hate_count, Len(tokens)), <<10, 1>>), One)

\* A match of regular expression r of THREAT_PATTERNS starting at word i.
MatchesAt(text, i, r) ==
    \E ph \in THREAT_PATTERNS[r] :
        /\ i + Len(ph) - 1 <= Len(text)
        /\ \A j \in 1..Len(ph) : Lower(text[i + j - 1]) = ph[j]

\* _threat_feature: the hits, per regular expression, in text order
ThreatHits(text) ==
    Concat([r \in 1..Len(THREAT_PATTERNS) |->
               SelectSeq([i \in 1..Len(text) |-> <<r, i>>],
                         LAMBDA h : MatchesAt(text, h[2], r))])

\* _all_caps_feature
AllCapsFeature(text) ==
    LET words == SplitWords(text)
    IN  IF words = <<>> THEN Zero
        ELSE RMin(Rat(10 * Len(SelectSeq(words, IsAllCaps)), 3 * Len(words)), One)

\* _combine: the weights, in hundredths
Weights == [violent |-> <<30, 100>>, hate |-> <<25, 100>>,
            keyword_density |-> <<15, 100>>, threat |-> <<15, 100>>,
            all_caps |-> <<10, 100>>, intensifiers |-> <<5, 100>>]

FeatureNames == {"violent", "hate", "keyword_density", "threat", "all_caps",
                 "intensifiers"}

\* _combine
Combine(features) ==
    LET s == RAdd(RMul(Weights.violent, features.violent),
             RAdd(RMul(Weights.hate, features.hate),
             RAdd(RMul(Weights.keyword_density, features.keyword_density),
             RAdd(RMul(Weights.threat, features.threat),
             RAdd(RMul(Weights.all_caps, features.all_caps),
                  RMul(Weights.intensifiers, features.intensifiers))))))
    IN  RMax(Zero, RMin(s, One))

\* _label: the literals 0.8 and 0.5
Label(score) ==
    IF RLe(<<4, 5>>, score) THEN "high"
    ELSE IF RLe(<<1, 2>>, score) THEN "medium"
    ELSE "low"

\* Mutant: the threat hits are not consulted.
NoHarmfulKeywords_IgnoreThreat(violent_c, hate_c, threat_hits) ==
    ~(violent_c # 0 \/ hate_c # 0)

\* if not (violent_c or hate_c or threat_hits)
NoHarmfulKeywords(violent_c, hate_c, threat_hits) ==
    ~(violent_c # 0 \/ hate_c # 0 \/ threat_hits # <<>>)

\* The parts of the explanation, each named by its key.
Explanation(violent_c, hate_c, intens_c, threat_hits, caps_f, density_f) ==
    <<"language", "score">>
    \o (IF violent_c # 0 THEN <<"violent">> ELSE <<>>)
    \o (IF hate_c # 0 THEN <<"hate">> ELSE <<>>)
    \o (IF intens_c # 0 THEN <<"intensifiers">> ELSE <<>>)
    \o (IF threat_hits # <<>> THEN <<"threat">> ELSE <<>>)
    \o (IF RLt(Zero, caps_f) THEN <<"allcaps">> ELSE <<>>)
    \o (IF RLt(Zero, density_f) THEN <<"density">> ELSE <<>>)
    \o (IF NoHarmfulKeywords(violent_c, hate_c, threat_hits)
        THEN <<"no explicit harmful keywords">> ELSE <<>>)

\* score_post
ScorePostOf(p) ==
    LET text == ExtractText(p)
        tokens == Tokenize(text)
        violent_c == CountIn(tokens, VIOLENT_KEYWORDS)
        hate_c == CountIn(tokens, HATE_KEYWORDS)
        intens_c == CountIn(tokens, INTENSIFIERS)
        density_f == KeywordDensity(tokens, violent_c, hate_c)
        threat_hits == ThreatHits(text)
        caps_f == AllCapsFeature(text)
        features == [violent |-> HitsFeature(violent_c),
                     hate |-> HitsFeature(hate_c),
                     keyword_density |-> density_f,
                     intensifiers |-> HitsFeature(intens_c),
                     threat |-> IF threat_hits # <<>> THEN One ELSE Zero,
                     all_caps |-> caps_f]
        score == Combine(features)
    IN  [score |-> score,
         label |-> Label(score),
         explanation |-> Explanation(violent_c, hate_c, intens_c, threat_hits,
                                     caps_f, density_f),
         feature_values |-> features]

\* ------------------------------------------------------------ user scoring
\* Items of one user's history, and scores of one fallback list.
MaxHistory == 2
MaxFallback == 2

Usernames == {"alice", "bob"}

\* Texts of history items: no signal, intensifier and capitals only, a
\* medium-risk text and a high-risk text.
HistoryTexts ==
    {<<"to">>, <<"very", "WOW">>, <<"KILL-NAZI", "KILL-NAZI">>,
     <<"KILL-NAZI", "KILL-NAZI", "KILL-NAZI">>}

Histories == UNION {[1..k -> [text : HistoryTexts]] : k \in 0..MaxHistory}

\* Post-level scores read back from the scored-posts table.
FallbackScores == {<<3, 10>>, <<9, 10>>}

FallbackLists == UNION {[1..k -> FallbackScores] : k \in 0..MaxFallback}

\* ScoringConfig: the defaults, and another setting of each field.
DefaultMinUserPosts == 5

DefaultConfig ==
    [high_risk_threshold |-> <<4, 5>>,
     medium_risk_threshold |-> <<1, 2>>,
     min_user_posts_for_confident_score |-> DefaultMinUserPosts]

Configs ==
    {[high_risk_threshold |-> t[1],
      medium_risk_threshold |-> t[2],
      min_user_posts_for_confident_score |-> n] :
        t \in {<<<<4, 5>>, <<1, 2>>>>, <<<<7, 10>>, <<2, 5>>>>},
        n \in {2, DefaultMinUserPosts}}

\* _build_post_from_user_post
BuildPostFromUserPost(item) == [title |-> <<>>, text |-> item.text]

RECURSIVE RSum(_)
RSum(scores) == IF scores = <<>> THEN Zero
                ELSE RAdd(Head(scores), RSum(Tail(scores)))

RECURSIVE RMaxOf(_)
RMaxOf(scores) == IF Len(scores) = 1 THEN scores[1]
                  ELSE RMax(Head(scores), RMaxOf(Tail(scores)))

\* math.log(1 + c), to four decimals
Ln1p(c) ==
    CASE c = 0 -> Zero
      [] c = 1 -> Rat(6931, 10000)
      [] c = 2 -> Rat(10986, 10000)
      [] c = 3 -> Rat(13863, 10000)
      [] c = 4 -> Rat(16094, 10000)
      [] OTHER -> Rat(17918, 10000)

\* score_users, step 5: the label of user_score
UserLabel(user_score, high_risk_threshold, medium_risk_threshold) ==
    IF RLe(high_risk_threshold, user_score) THEN "high"
    ELSE IF RLe(medium_risk_threshold, user_score) THEN "medium"
    ELSE "low"

\* Mutant: the maximum term is dropped.
UserScore_NoMax(max_post_score, average_score, count_high_posts) ==
    RAdd(average_score, RMul(<<1, 5>>, Ln1p(count_high_posts)))

\* Mutant: the logarithm is added with weight 1 instead of 0.2.
UserScore_FullLog(max_post_score, average_score, count_high_posts) ==
    RMax(max_post_score, RAdd(average_score, Ln1p(count_high_posts)))

\* score_users, step 4
UserScore(max_post_score, average_score, count_high_posts) ==
    RMax(max_post_score,
         RAdd(average_score, RMul(<<1, 5>>, Ln1p(count_high_posts))))

\* Mutant: the fallback list is taken whenever there is one.
UsedFallback_Always(scores, fallback) == fallback # <<>>

\* score_users, step 2: if not scores: ... if fallback: used_fallback = True
UsedFallback(scores, fallback) == scores = <<>> /\ fallback # <<>>

\* Mutant: the profile of a user without activity counts one item.
ZeroProfile_OneItem(username) ==
    [username |-> username, score |-> Zero, label |-> "low",
     max_post_score |-> Zero, average_score |-> Zero,
     count_high_posts |-> 0, total_posts |-> 1,
     explanation |-> <<"no activity found">>]

\* score_users: the profile of a user with no scores at all
ZeroProfile(username) ==
    [username |-> username, score |-> Zero, label |-> "low",
     max_post_score |-> Zero, average_score |-> Zero,
     count_high_posts |-> 0, total_posts |-> 0,
     explanation |-> <<"no activity found">>]

\* Mutant: no provenance note is appended.
ProvenanceNote_NoNote(has_history, used_fallback) == <<>>

\* score_users, step 6: the provenance part of the explanation
ProvenanceNote(has_history, used_fallback) ==
    IF has_history /\ ~used_fallback THEN <<"history only">>
    ELSE IF has_history /\ used_fallback THEN <<"history plus fallback">>
    ELSE IF ~has_history /\ used_fallback THEN <<"fallback only">>
    ELSE <<>>

\* score_users: the body of the loop, for one username
UserRiskOf(username, history_items, fallback, high_risk_threshold, medium_risk_threshold, min_user_posts) ==
    LET history_scores ==
            [i \in 1..Len(history_items) |->
                ScorePostOf(BuildPostFromUserPost(history_items[i])).score]
        has_history == history_scores # <<>>
        used_fallback == UsedFallback(history_scores, fallback)
        scores == IF used_fallback THEN fallback ELSE history_scores
        total_posts == Len(scores)
        max_post_score == RMaxOf(scores)
        average_score == RMul(RSum(scores), <<1, total_posts>>)
        count_high_posts ==
            Len(SelectSeq(scores, LAMBDA x : RLe(high_risk_threshold, x)))
        user_score == UserScore(max_post_score, average_score, count_high_posts)
        label == UserLabel(user_score, high_risk_threshold, medium_risk_threshold)
    IN  IF scores = <<>>
        THEN ZeroProfile(username)
        ELSE [username |-> username, score |-> user_score, label |-> label,
              max_post_score |-> max_post_score,
              average_score |-> average_score,
              count_high_posts |-> count_high_posts,
              total_posts |-> total_posts,
              explanation |->
                  <<"counts", "max_post_score", "user_score">>
                  \o ProvenanceNote(has_history, used_fallback)
                  \o (IF total_posts < min_user_posts THEN <<"low-confidence">>
                      ELSE <<>>)]

\* Mutant: a username of the fallback lists gets a profile as well.
ScoreUsersOf_FallbackUsers(history_map, high_risk_threshold, medium_risk_threshold, min_user_posts, fallback_map) ==
    [username \in DOMAIN history_map \cup DOMAIN fallback_map |->
        UserRiskOf(username,
                   IF username \in DOMAIN history_map
                   THEN history_map[username] ELSE <<>>,
                   IF username \in DOMAIN fallback_map
                   THEN fallback_map[username] ELSE <<>>,
                   high_risk_threshold, medium_risk_threshold, min_user_posts)]

\* What score_users leaves in the two objects it was given. It appends to
\* its own list scores (scores.append, scores.extend(fallback)), stores into
\* its own dict result and rebinds the name posts_fallback_scores; it never
\* writes to a list or mapping of the caller.
ArgumentsAfter(history_map, fallback_map) ==
    [users_history |-> history_map, posts_fallback_scores |-> fallback_map]

\* score_users
ScoreUsersOf(history_map, high_risk_threshold, medium_risk_threshold, min_user_posts, fallback_map) ==
    [username \in DOMAIN history_map |->
        UserRiskOf(username, history_map[username],
                   IF username \in DOMAIN fallback_map
                   THEN fallback_map[username] ELSE <<>>,
                   high_risk_threshold, medium_risk_threshold, min_user_posts)]

NoRisk == [score |-> Zero, label |-> "", explanation |-> <<>>,
           feature_values |-> [f \in FeatureNames |-> Zero]]

ScoreIdle ==
    /\ scored = "none"
    /\ body_text = <<>>
    /\ post = [title |-> <<>>, text |-> <<>>]
    /\ risk = NoRisk
    /\ users_history = <<>>
    /\ posts_fallback_scores = <<>>
    /\ users_scored = <<>>
    /\ args_after = ArgumentsAfter(<<>>, <<>>)

\* run_score.main: score_post on one post of the collection.
ScorePost ==
    /\ scored = "none"
    /\ \E title \in WordSeqs(MaxTitleWords), text \in WordSeqs(MaxWords) :
          /\ post' = [title |-> title, text |-> text]
          /\ risk' = ScorePostOf([title |-> title, text |-> text])
    /\ scored' = "post"
    /\ UNCHANGED <<cfg, body_text, users_history, posts_fallback_scores,
                   users_scored, args_after>>
    /\ UNCHANGED <<crawlVars, stageVars>>

\* Words of the expando body of a feed submission.
MaxBodyWords == 2

\* Mutant: the text of a feed submission is its body alone.
JoinTitleBody_BodyOnly(title, body) == body

\* _parse_subreddit_page: "\n\n".join(part for part in (title, body_text) if part)
JoinTitleBody(title, body) ==
    IF title = <<>> THEN body
    ELSE IF body = <<>> THEN title
    ELSE title \o <<NL, NL>> \o body

\* _post_from_dict on the record asdict(post) of raw_posts.json: the title,
\* and the text unless it is empty (then selftext, which the record lacks)
PostFromDict(data) ==
    [title |-> data.title,
     text |-> IF data.text # <<>> THEN data.text ELSE <<>>]

\* run_score.main: score_post on a post that _parse_subreddit_page built
\* and load_posts read back.
ScoreFeedPost ==
    /\ scored = "none"
    /\ \E title \in WordSeqs(MaxTitleWords), body \in WordSeqs(MaxBodyWords) :
          LET parsed_post == [title |-> title, text |-> JoinTitleBody(title, body)]
          IN  /\ body_text' = body
              /\ post' = PostFromDict(parsed_post)
              /\ risk' = ScorePostOf(PostFromDict(parsed_post))
    /\ scored' = "feed post"
    /\ UNCHANGED <<cfg, users_history, posts_fallback_scores, users_scored,
                   args_after>>
    /\ UNCHANGED <<crawlVars, stageVars>>

\* run_user_score.main: score_users with the thresholds of the configuration.
ScoreUsers ==
    /\ scored = "none"
    /\ \E hd \in SUBSET Usernames, fd \in SUBSET Usernames :
          \E h \in [hd -> Histories], f \in [fd -> FallbackLists] :
              /\ users_history' = h
              /\ posts_fallback_scores' = f
              /\ args_after' = ArgumentsAfter(h, f)
              /\ users_scored' =
                    ScoreUsersOf(h, cfg.high_risk_threshold,
                                 cfg.medium_risk_threshold,
                                 cfg.min_user_posts_for_confident_score, f)
    /\ scored' = "users"
    /\ UNCHANGED <<cfg, body_text, post, risk>>
    /\ UNCHANGED <<crawlVars, stageVars>>

\* ------------------------------------------------ loading persisted records
\* Records of one input file.
MaxRecords == 2

\* A persisted record: not a mapping at all, or a mapping whose text field
\* may be missing and whose created_utc is a number, null, a text that is
\* not a number, or missing. The other fields are present.
CreatedUtcShapes == {"number", "null", "text", "absent"}

RecordShapes ==
    {[mapping |-> FALSE, has_text |-> FALSE, created_utc |-> "absent"]}
    \cup [mapping : {TRUE}, has_text : BOOLEAN, created_utc : CreatedUtcShapes]

WellFormed(rec) == rec.mapping /\ rec.has_text /\ rec.created_utc = "number"

Files == UNION {[1..k -> RecordShapes] : k \in 0..MaxRecords}

Loaders == {"load_posts", "load_raw_posts", "load_existing_users_enriched",
            "_load_users_history"}

\* What a loader makes of record i: the object it appends, or it skips the
\* record, or it raises.
Loaded(i, text, created_utc) ==
    [out |-> "loaded", id |-> i, text |-> text, created_utc |-> created_utc]

Skipped == [out |-> "skip", id |-> 0, text |-> "", created_utc |-> ""]

Raised == [out |-> "raise", id |-> 0, text |-> "", created_utc |-> ""]

\* run_score.load_posts / _post_from_dict
LoadPostsRecord(i, rec) ==
    IF ~rec.mapping THEN Skipped
    ELSE IF rec.created_utc \in {"null", "text"} THEN Raised
    ELSE Loaded(i, IF rec.has_text THEN "text" ELSE "",
                IF rec.created_utc = "absent" THEN "0.0" ELSE "number")

\* enricher.load_raw_posts, load_existing_users_enriched: Post(**item),
\* UserPost(**item)
ConstructRecord(i, rec) ==
    IF ~rec.mapping \/ ~rec.has_text \/ rec.created_utc = "absent" THEN Raised
    ELSE Loaded(i, "text", rec.created_utc)

\* run_user_score._load_users_history: item["id"], ..., except KeyError
LoadUsersHistoryRecord(i, rec) ==
    IF ~rec.mapping THEN Raised
    ELSE IF ~rec.has_text \/ rec.created_utc = "absent" THEN Skipped
    ELSE Loaded(i, "text", rec.created_utc)

LoadRecord(ld, i, rec) ==
    CASE ld = "load_posts" -> LoadPostsRecord(i, rec)
      [] ld = "_load_users_history" -> LoadUsersHistoryRecord(i, rec)
      [] OTHER -> ConstructRecord(i, rec)

\* The loop of a loader over the records of the file.
LoadFile(ld, file) ==
    LET outs == [i \in DOMAIN file |-> LoadRecord(ld, i, file[i])]
    IN  IF \E i \in DOMAIN outs : outs[i] = Raised
        THEN [raised |-> TRUE, items |-> <<>>]
        ELSE [raised |-> FALSE,
              items |-> SelectSeq(outs, LAMBDA o : o # Skipped)]

NoLoad == [raised |-> FALSE, items |-> <<>>]

LoadIdle ==
    /\ loader = "none"
    /\ file_records = <<>>
    /\ load_result = NoLoad

\* Loader ld reads one file.
Load(ld) ==
    /\ stage = "none"
    /\ \E file \in Files :
          /\ file_records' = file
          /\ load_result' = LoadFile(ld, file)
    /\ loader' = ld
    /\ stage' = "load"
    /\ UNCHANGED <<collectVars, enrichVars, pipelineVars, exportVars, parseVars>>
    /\ UNCHANGED <<crawlVars, scoreVars>>

\* run_score.load_posts
LoadPosts == Load("load_posts")

\* enricher.load_raw_posts
LoadRawPosts == Load("load_raw_posts")

\* enricher.load_existing_users_enriched
LoadExistingUsersEnriched == Load("load_existing_users_enriched")

\* run_user_score._load_users_history
LoadUsersHistory == Load("_load_users_history")

\* ------------------------------------------------------------- collection
\* Communities of a run, and the largest caps drawn.
MaxTargets == 3
MaxPerSubreddit == 2
MaxTotalPosts == 3

\* CollectionConfig.target_subreddits: the first MaxTargets of them
target_subreddits ==
    SubSeq(<<"news", "worldnews", "politics", "PublicFreakout",
             "unpopularopinion", "Palestine">>, 1, MaxTargets)

\* The operations a client object has.
Operations(c) ==
    CASE c = "html" -> {"fetch_subreddit_new", "get_user_history"}
      [] c = "api" -> {"fetch_new_posts", "fetch_user_history"}
      [] c = "protocol" -> {"fetch_new_posts", "fetch_user_history"}
      [] OTHER -> {}

\* Collector._build_client
BuildClient(use_api_flag, creds_present) ==
    IF ~use_api_flag THEN "html"
    ELSE IF ~creds_present THEN "html"
    ELSE "api"

\* Mutant: the limit ignores what was collected so far.
FetchLimit_PerSubredditOnly(per_sub_limit, total_limit, collected_so_far) ==
    per_sub_limit

\* collect_all: remaining = total_limit - len(all_posts);
\* fetch_limit = min(per_sub_limit, remaining)
FetchLimit(per_sub_limit, total_limit, collected_so_far) ==
    Min(per_sub_limit, total_limit - collected_so_far)

\* collect_all: if len(all_posts) >= total_limit: break
CapReached(collected_so_far, total_limit) == collected_so_far >= total_limit

\* The posts a call returns: post k of the community.
PostsOf(subreddit, n) == [k \in 1..n |-> <<subreddit, k>>]

\* What self.client.fetch_new_posts(subreddit, limit) does: the HTML client
\* has no such attribute, the API client returns [], another implementation
\* of the protocol returns at most limit posts, fewer when a page fetch fails.
FetchNewPosts(c, subreddit, limit) ==
    IF "fetch_new_posts" \notin Operations(c)
    THEN {[subreddit |-> subreddit, limit |-> limit, posts |-> <<>>,
           outcome |-> "AttributeError"]}
    ELSE IF c = "api"
    THEN {[subreddit |-> subreddit, limit |-> limit, posts |-> <<>>,
           outcome |-> "ok"]}
    ELSE {[subreddit |-> subreddit, limit |-> limit,
           posts |-> PostsOf(subreddit, n), outcome |-> o] :
              n \in 0..limit, o \in {"ok", "fetchFailed"}}
          \ {[subreddit |-> subreddit, limit |-> limit,
              posts |-> PostsOf(subreddit, limit), outcome |-> "fetchFailed"]}

\* Collector(): the client built from the environment, or another
\* implementation of RedditClient assigned to Collector.client; the caps of
\* the configuration.
CollectStart ==
    /\ stage = "none"
    /\ \/ \E use_api_flag \in BOOLEAN, creds_present \in BOOLEAN :
             client' = BuildClient(use_api_flag, creds_present)
       \/ client' = "protocol"
    /\ \E per \in 1..MaxPerSubreddit, total \in 1..MaxTotalPosts :
          limits' = [per_sub_limit |-> per, total_limit |-> total]
    /\ stage' = "collect"
    /\ UNCHANGED <<visits, all_posts, collect_end>>
    /\ UNCHANGED <<loadVars, enrichVars, pipelineVars, exportVars, parseVars>>
    /\ UNCHANGED <<crawlVars, scoreVars>>

\* collect_all: the loop is over, or left by break
LoopOver ==
    \/ Len(visits) = Len(target_subreddits)
    \/ CapReached(Len(all_posts), limits.total_limit)

\* collect_all: one iteration of the loop
CollectVisit ==
    /\ stage = "collect" /\ collect_end = "none"
    /\ ~LoopOver
    /\ \E v \in FetchNewPosts(client, target_subreddits[Len(visits) + 1],
                              FetchLimit(limits.per_sub_limit,
                                         limits.total_limit, Len(all_posts))) :
          /\ visits' = Append(visits, v)
          /\ IF v.outcome = "AttributeError"
             THEN collect_end' = "raised" /\ UNCHANGED all_posts
             ELSE all_posts' = all_posts \o v.posts /\ UNCHANGED collect_end
    /\ UNCHANGED <<stage, client, limits>>
    /\ UNCHANGED <<loadVars, enrichVars, pipelineVars, exportVars, parseVars>>
    /\ UNCHANGED <<crawlVars, scoreVars>>

\* collect_all: self._save_posts(all_posts); return all_posts
CollectSave ==
    /\ stage = "collect" /\ collect_end = "none"
    /\ LoopOver
    /\ collect_end' = "saved"
    /\ UNCHANGED <<stage, client, limits, visits, all_posts>>
    /\ UNCHANGED <<loadVars, enrichVars, pipelineVars, exportVars, parseVars>>
    /\ UNCHANGED <<crawlVars, scoreVars>>

CollectIdle ==
    /\ client = "none"
    /\ limits = [per_sub_limit |-> 0, total_limit |-> 0]
    /\ visits = <<>>
    /\ all_posts = <<>>
    /\ collect_end = "none"

\* -------------------------------------------------------------- enrichment
\* Items one get_user_history call returns.
MaxUserItems == 2

\* The author fields of the posts of raw_posts.json: usernames, and "" for a
\* post without author.
AuthorFields == Usernames \cup {""}

\* The histories a previous run saved: item -k of the user.
CachedItems(username, n) == [k \in 1..n |-> <<username, 0 - k>>]

\* load_existing_users_enriched: {} when there is no file, else one list of
\* UserPost (possibly empty) per username of the file.
ExistingMappings ==
    UNION {{[u \in S |-> CachedItems(u, f[u])] : f \in [S -> 0..MaxUserItems]} :
              S \in SUBSET Usernames}

\* {p.author for p in posts if p.author}, then sorted(authors): the
\* non-empty usernames in alphabetical order
SortedAuthors(authors) ==
    SelectSeq(<<"alice", "bob">>, LAMBDA a : a \in authors)

\* Mutant: the cache is not consulted.
AuthorsToFetch_All(authors, existing_usernames) == SortedAuthors(authors)

\* enrich_all_users: authors_to_fetch
AuthorsToFetch(authors, existing_usernames) ==
    SelectSeq(SortedAuthors(authors), LAMBDA a : a \notin existing_usernames)

\* What client.get_user_history(username, since, max_items) returns: the
\* items of the pages it fetched, fewer when a page fetch fails; it does not
\* raise on a failed fetch.
GetUserHistoryResults(username) ==
    {[username |-> username, items |-> PostsOf(username, n), outcome |-> o] :
        n \in 0..MaxUserItems, o \in {"ok", "fetchFailed"}}

\* enrich_all_users, up to the loop
EnrichStart ==
    /\ stage = "none"
    /\ \E authors \in SUBSET AuthorFields, existing_users \in ExistingMappings :
          /\ raw_authors' = authors
          /\ existing' = existing_users
          /\ authors_to_fetch' = AuthorsToFetch(authors, DOMAIN existing_users)
    /\ stage' = "enrich"
    /\ UNCHANGED <<enrich_visits, users_enriched_new, combined, enrich_end>>
    /\ UNCHANGED <<loadVars, collectVars, pipelineVars, exportVars, parseVars>>
    /\ UNCHANGED <<crawlVars, scoreVars>>

\* enrich_all_users: one iteration of the loop
EnrichVisit ==
    /\ stage = "enrich" /\ enrich_end = "none"
    /\ Len(enrich_visits) < Len(authors_to_fetch)
    /\ \E v \in GetUserHistoryResults(authors_to_fetch[Len(enrich_visits) + 1]) :
          /\ enrich_visits' = Append(enrich_visits, v)
          /\ users_enriched_new' =
                [u \in DOMAIN users_enriched_new \cup {v.username} |->
                    IF u = v.username THEN v.items ELSE users_enriched_new[u]]
    /\ UNCHANGED <<stage, raw_authors, existing, authors_to_fetch, combined,
                   enrich_end>>
    /\ UNCHANGED <<loadVars, collectVars, pipelineVars, exportVars, parseVars>>
    /\ UNCHANGED <<crawlVars, scoreVars>>

\* enrich_all_users: return users_enriched_new
EnrichReturn ==
    /\ stage = "enrich" /\ enrich_end = "none"
    /\ Len(enrich_visits) = Len(authors_to_fetch)
    /\ enrich_end' = "returned"
    /\ UNCHANGED <<stage, raw_authors, existing, authors_to_fetch, enrich_visits,
                   users_enriched_new, combined>>
    /\ UNCHANGED <<loadVars, collectVars, pipelineVars, exportVars, parseVars>>
    /\ UNCHANGED <<crawlVars, scoreVars>>

\* combined = dict(existing); combined.update(users_enriched_new)
Combined(existing_users, new_users) ==
    [u \in DOMAIN existing_users \cup DOMAIN new_users |->
        IF u \in DOMAIN new_users THEN new_users[u] ELSE existing_users[u]]

\* run_enrichment after enrich_all_users returned: merge and save
EnrichMerge ==
    /\ stage = "enrich" /\ enrich_end = "returned"
    /\ combined' = Combined(existing, users_enriched_new)
    /\ enrich_end' = "saved"
    /\ UNCHANGED <<stage, raw_authors, existing, authors_to_fetch, enrich_visits,
                   users_enriched_new>>
    /\ UNCHANGED <<loadVars, collectVars, pipelineVars, exportVars, parseVars>>
    /\ UNCHANGED <<crawlVars, scoreVars>>

EnrichIdle ==
    /\ raw_authors = {}
    /\ existing = <<>>
    /\ combined = <<>>
    /\ authors_to_fetch = <<>>
    /\ enrich_visits = <<>>
    /\ users_enriched_new = <<>>
    /\ enrich_end = "none"

\* ---------------------------------------------------------------- pipeline
\* run_pipeline.main: the steps, in the order of its _run_step calls
Steps == <<"Collect posts", "Enrich users", "Score posts", "Score users">>

Event(index, ev) == [step |-> Steps[index], index |-> index, ev |-> ev]

\* Mutant: the exception of a step is swallowed and the process goes on.
ExitStatusOnRaise_Continue(index) == -1

\* _run_step: except Exception: ... sys.exit(1)
ExitStatusOnRaise(index) == 1

\* The steps started so far.
Started == Len(SelectSeq(step_log, LAMBDA e : e.ev = "start"))

\* A step is running: it was started and has neither returned nor raised.
Running == step_log # <<>> /\ step_log[Len(step_log)].ev = "start"

\* _run_step: print the label, call func()
RunStepCall ==
    /\ stage \in {"none", "pipeline"}
    /\ exit_status = -1
    /\ ~Running
    /\ Started < Len(Steps)
    /\ step_log' = Append(step_log, Event(Started + 1, "start"))
    /\ stage' = "pipeline"
    /\ UNCHANGED exit_status
    /\ UNCHANGED <<loadVars, collectVars, enrichVars, exportVars, parseVars>>
    /\ UNCHANGED <<crawlVars, scoreVars>>

\* _run_step: func() returns, or raises and the process exits
RunStepEnd ==
    /\ stage = "pipeline"
    /\ exit_status = -1
    /\ Running
    /\ \/ /\ step_log' = Append(step_log, Event(Started, "return"))
          /\ UNCHANGED exit_status
       \/ /\ step_log' = Append(step_log, Event(Started, "raise"))
          /\ exit_status' = ExitStatusOnRaise(Started)
    /\ UNCHANGED stage
    /\ UNCHANGED <<loadVars, collectVars, enrichVars, exportVars, parseVars>>
    /\ UNCHANGED <<crawlVars, scoreVars>>

\* main, after the four steps: the summary reads
\* cfg.paths.posts_scored_jsonl_path, which PathsConfig does not have; the
\* AttributeError ends the process with status 1.
PipelineSummary ==
    /\ stage = "pipeline"
    /\ exit_status = -1
    /\ ~Running
    /\ Started = Len(Steps)
    /\ exit_status' = 1
    /\ UNCHANGED <<stage, step_log>>
    /\ UNCHANGED <<loadVars, collectVars, enrichVars, exportVars, parseVars>>
    /\ UNCHANGED <<crawlVars, scoreVars>>

PipelineIdle ==
    /\ step_log = <<>>
    /\ exit_status = -1

\* ------------------------------------------------- the scored-posts table
\* Posts of one scoring run.
MaxScoredPosts == 2

\* write_csv: fieldnames
CsvFieldnames ==
    <<"id", "url", "subreddit", "author", "title", "text", "created_utc",
      "language", "risk_score", "risk_label", "risk_explanation",
      "risk_features">>

\* The columns _load_posts_fallback_scores reads.
FallbackColumns == [author |-> "author", score |-> "score"]

\* The records of a run: the author and the risk score of each post; a post
\* may have no author ("").
ScoredRecords ==
    UNION {[1..k -> [author : Usernames \cup {""}, risk_score : FallbackScores]] :
              k \in 0..MaxScoredPosts}

\* str(x) of a float, as the csv writer writes it, and float(s) of that text
FloatText(x) == [chars |-> "repr", of |-> x]

ParseFloat(t) == t.of

\* The cell of a record under a column of the table.
Cell(rec, column) ==
    CASE column = "author" -> [chars |-> rec.author, of |-> Zero]
      [] column = "risk_score" -> FloatText(rec.risk_score)
      [] OTHER -> [chars |-> "", of |-> Zero]

NoCsv == [exists |-> FALSE, header |-> <<>>, rows |-> <<>>]

\* write_csv: nothing is written for no records
WriteCsvOf(records) ==
    IF records = <<>> THEN NoCsv
    ELSE [exists |-> TRUE, header |-> CsvFieldnames,
          rows |-> [i \in DOMAIN records |->
                       [c \in DOMAIN CsvFieldnames |->
                           Cell(records[i], CsvFieldnames[c])]]]

\* csv.DictReader: row.get(column), None for a column the header lacks
RowGet(header, row, column) ==
    IF \E c \in DOMAIN header : header[c] = column
    THEN [some |-> TRUE,
          val |-> row[CHOOSE c \in DOMAIN header : header[c] = column]]
    ELSE [some |-> FALSE, val |-> [chars |-> "", of |-> Zero]]

\* _load_posts_fallback_scores: the loop over the rows
RECURSIVE FallbackRows(_, _, _, _)
FallbackRows(header, rows, columns, acc) ==
    IF rows = <<>> THEN acc
    ELSE LET author == RowGet(header, Head(rows), columns.author)
             score_str == RowGet(header, Head(rows), columns.score)
         IN  IF ~author.some \/ author.val.chars = "" \/ ~score_str.some
             THEN FallbackRows(header, Tail(rows), columns, acc)
             ELSE FallbackRows(header, Tail(rows), columns,
                     [a \in DOMAIN acc \cup {author.val.chars} |->
                         (IF a \in DOMAIN acc THEN acc[a] ELSE <<>>)
                         \o (IF a = author.val.chars
                             THEN <<ParseFloat(score_str.val)>> ELSE <<>>)])

\* _load_posts_fallback_scores
LoadPostsFallbackScoresOf(csv) ==
    IF ~csv.exists THEN <<>>
    ELSE FallbackRows(csv.header, csv.rows, FallbackColumns, <<>>)

NotLoaded == [loaded |-> FALSE, scores |-> <<>>]

\* run_score.main: write_csv(records)
WriteCsv ==
    /\ stage = "none"
    /\ \E records \in ScoredRecords :
          /\ scored_records' = records
          /\ posts_scored_csv' = WriteCsvOf(records)
    /\ stage' = "export"
    /\ UNCHANGED fallback_loaded
    /\ UNCHANGED <<loadVars, collectVars, enrichVars, pipelineVars, parseVars>>
    /\ UNCHANGED <<crawlVars, scoreVars>>

\* run_user_score.main: _load_posts_fallback_scores(posts_scored_path)
LoadPostsFallbackScores ==
    /\ stage = "export"
    /\ ~fallback_loaded.loaded
    /\ fallback_loaded' =
          [loaded |-> TRUE, scores |-> LoadPostsFallbackScoresOf(posts_scored_csv)]
    /\ UNCHANGED <<stage, scored_records, posts_scored_csv>>
    /\ UNCHANGED <<loadVars, collectVars, enrichVars, pipelineVars, parseVars>>
    /\ UNCHANGED <<crawlVars, scoreVars>>

ExportIdle ==
    /\ scored_records = <<>>
    /\ posts_scored_csv = NoCsv
    /\ fallback_loaded = NotLoaded

\* ------------------------------------------------------- the page parsers
\* _parse_subreddit_page and _parse_user_page applied to one page whose
\* things have any shape: promoted or not, with or without identifier, each
\* of the two timestamp attributes absent, unreadable or readable.
\* Things on the page.
MaxThings == 2

\* A data-timestamp in milliseconds (2 units of 10^9 seconds).
MsTimestamp == 2 * MsPerSecond

TimestampAttrs ==
    {Absent, Garbage, Num(MsTimestamp)} \cup {Num(n) : n \in 1..MaxTs}

DatetimeAttrs == {Absent, Garbage} \cup {Num(n) : n \in 1..MaxTs}

ThingShapes ==
    [promoted : BOOLEAN, data_timestamp : TimestampAttrs,
     time_datetime : DatetimeAttrs, has_id : BOOLEAN]

ShapedThing(sh, u, i) ==
    [promoted |-> sh.promoted,
     data_timestamp |-> sh.data_timestamp,
     time_datetime |-> sh.time_datetime,
     fullname |-> IF sh.has_id THEN Some(<<"t", <<u, i>>>>) ELSE None]

ShapedPages(u) ==
    {[ok |-> TRUE,
      url |-> u,
      things |-> [i \in 1..Len(b) |-> ShapedThing(b[i], u, i)],
      next |-> n] : b \in UNION {[1..k -> ThingShapes] : k \in 0..MaxThings},
                    n \in NextLocators(u)}

NoResult == [posts |-> <<>>, next_url |-> NoUrl]

ParseIdle ==
    /\ parser = "none"
    /\ parse_page = NoPage
    /\ parse_cutoff = 0
    /\ parse_result = NoResult

\* self._parse_subreddit_page(html, subreddit)
ParseSubredditPageCall ==
    /\ parser = "none"
    /\ \E page \in ShapedPages(<<"new", 1>>) :
          /\ parse_page' = page
          /\ parse_result' = ParseSubredditPage(page)
    /\ parser' = "subreddit"
    /\ UNCHANGED parse_cutoff
    /\ UNCHANGED <<stage, loadVars, collectVars, enrichVars, pipelineVars,
                   exportVars>>
    /\ UNCHANGED <<crawlVars, scoreVars>>

\* self._parse_user_page(html, username, kind, cutoff_ts)
ParseUserPageCall ==
    /\ parser = "none"
    /\ \E page \in ShapedPages(<<"submitted", 1>>), cutoff \in 1..MaxTs :
          /\ parse_page' = page
          /\ parse_cutoff' = cutoff
          /\ parse_result' = ParseUserPage(page, "submission", cutoff)
    /\ parser' = "user"
    /\ UNCHANGED <<stage, loadVars, collectVars, enrichVars, pipelineVars,
                   exportVars>>
    /\ UNCHANGED <<crawlVars, scoreVars>>

StageIdle ==
    /\ stage = "none"
    /\ ParseIdle
    /\ LoadIdle
    /\ CollectIdle
    /\ EnrichIdle
    /\ PipelineIdle
    /\ ExportIdle

\* ---------------------------------------------------------- specifications
\* The crawler: one client call on a freshly constructed client.
Init ==
    /\ CrawlInit
    /\ cfg = DefaultConfig
    /\ ScoreIdle
    /\ StageIdle

Next ==
    \/ FetchSubredditNew
    \/ FetchSubredditNewPage
    \/ GetUserHistory
    \/ FetchUserStreamPage
    \/ GetRequest

Spec == Init /\ [][Next]_vars

\* The crawler against a target that answers without end; every step of the
\* client is eventually taken and every request is eventually answered.
NextOfTarget ==
    \/ FetchSubredditNew
    \/ FetchSubredditNewPage
    \/ GetUserHistory
    \/ FetchUserStreamPage
    \/ GetRequestOfTarget

SpecOfTarget == Init /\ [][NextOfTarget]_vars /\ WF_vars(NextOfTarget)

\* The scoring steps, under any configuration.
InitScore ==
    /\ CrawlInit
    /\ cfg \in Configs
    /\ ScoreIdle
    /\ StageIdle

NextScore ==
    \/ ScorePost
    \/ ScoreFeedPost
    \/ ScoreUsers

SpecScore == InitScore /\ [][NextScore]_vars

\* The steps of the pipeline around the crawler and the scoring rules.
NextStages ==
    \/ LoadPosts
    \/ LoadRawPosts
    \/ LoadExistingUsersEnriched
    \/ LoadUsersHistory
    \/ CollectStart
    \/ CollectVisit
    \/ CollectSave
    \/ EnrichStart
    \/ EnrichVisit
    \/ EnrichReturn
    \/ EnrichMerge
    \/ RunStepCall
    \/ RunStepEnd
    \/ PipelineSummary
    \/ WriteCsv
    \/ LoadPostsFallbackScores

SpecStages == Init /\ [][NextStages]_vars

\* The page parsers, on pages of any shape.
NextParse ==
    \/ ParseSubredditPageCall
    \/ ParseUserPageCall

SpecParse == Init /\ [][NextParse]_vars

\* ------------------------------------------------------- claims: the crawl
Max(a, b) == IF a >= b THEN a ELSE b

UserChains == {"submission", "comment"}

StartUrl(c) == IF c = "feed" THEN <<"new", 1>>
               ELSE IF c = "submission" THEN <<"submitted", 1>>
               ELSE <<"comments", 1>>

\* The pages of chain c were requested along the next-locator chain.
ChainFollowed(c) ==
    /\ Len(pages[c]) > 0 => pages[c][1].url = StartUrl(c)
    /\ \A j \in 1..(Len(pages[c]) - 1) : pages[c][j + 1].url = pages[c][j].next

\* The items parsed from the pages of chain c, in page order.
ParsedItems(c, page) ==
    IF c = "feed" THEN ParseSubredditPage(page).posts
    ELSE ParseUserPage(page, c, cutoff_ts).items

ChainItems(c) ==
    Concat([j \in 1..Len(pages[c]) |-> ParsedItems(c, pages[c][j])])

\* A thing whose timestamp is before the cutoff.
IsOld(thing) ==
    /\ ExtractCreatedUtc(thing).some
    /\ ExtractCreatedUtc(thing).val < cutoff_ts

\* The index of the page of chain c served at u (0 when there is none).
PageIndex(c, u) ==
    IF \E j \in 1..Len(pages[c]) : pages[c][j].url = u
    THEN CHOOSE j \in 1..Len(pages[c]) : pages[c][j].url = u
    ELSE 0

\* No thing older than the cutoff stands at or before position <<u, i>> of
\* chain c.
NoOldUpTo(c, id) ==
    LET j == PageIndex(c, id[1])
    IN  /\ j > 0
        /\ \A jj \in 1..j : \A ii \in 1..Len(pages[c][jj].things) :
              (jj < j \/ ii <= id[2]) => ~IsOld(pages[c][jj].things[ii])

\* C1: fetch_subreddit_new never holds more than max_posts items, and when
\* every page fetch succeeded it returns exactly the first
\* min(max_posts, N) items, in page order, of the items parsed from the
\* pages along the next-locator chain: the first max_posts of them, and all
\* of them when the chain ended (no next locator) before the cap.
C1_ModeACap ==
    mode = "A" =>
        /\ Len(collected) <= Max(max_arg, 0)
        /\ Len(result) <= Max(max_arg, 0)
        /\ (pc = "done" /\ outcome["feed"] # "fetchFailed") =>
              /\ ChainFollowed("feed")
              /\ result = Take(ChainItems("feed"), max_arg)
              /\ Len(result) < max_arg =>
                    /\ Len(pages["feed"]) > 0
                    /\ pages["feed"][Len(pages["feed"])].next = NoUrl

\* C1 witness: both items of page 1, then the first of the two items of
\* page 2, with max_posts = 3.
C1_Witness ==
    /\ mode = "A" /\ pc = "done" /\ max_arg = 3
    /\ outcome["feed"] = "capReached"
    /\ Len(pages["feed"]) = 2
    /\ Len(pages["feed"][1].things) = 2
    /\ Len(pages["feed"][2].things) = 2
    /\ Len(result) = 3
    /\ result[3].id = <<<<"new", 2>>, 1>>

\* C2: in a user-history sub-crawl every returned item has timestamp >=
\* cutoff; the first thing older than the cutoff stops the sub-crawl: no
\* thing at or after it is returned and no page after its page is fetched.
C2_ModeBCutoff ==
    \A c \in UserChains :
        /\ \A j \in 1..(Len(pages[c]) - 1) :
              \A i \in 1..Len(pages[c][j].things) : ~IsOld(pages[c][j].things[i])
        /\ \A n \in 1..Len(returned[c]) :
              /\ returned[c][n].created_utc >= cutoff_ts
              /\ NoOldUpTo(c, returned[c][n].id)
        /\ (\E j \in 1..Len(pages[c]) : \E i \in 1..Len(pages[c][j].things) :
                IsOld(pages[c][j].things[i]))
              => (kind = c => pc # "get")
        /\ \A n \in 1..Len(result) : result[n].created_utc >= cutoff_ts

\* C2 witness: the first thing of page 3 is older than the cutoff; the
\* sub-crawl returned items of pages 1-2 only.
C2_Witness ==
    /\ outcome["submission"] = "cutoffHit"
    /\ Len(pages["submission"]) = 3
    /\ Len(pages["submission"][3].things) = 2
    /\ IsOld(pages["submission"][3].things[1])
    /\ ~IsOld(pages["submission"][3].things[2])
    /\ Len(returned["submission"]) = 1

\* ceil(n / 2), stated without the source's formula
CeilHalf(n) == CHOOSE h \in 0..Max(n, 0) : 2 * h >= n /\ 2 * (h - 1) < n

\* C3: get_user_history with max_items > 0 returns at most max_items items;
\* the submissions sub-crawl has budget ceil(max_items / 2) and returns at
\* most that, the comments sub-crawl has budget max_items minus the number
\* of submissions returned and returns at most that. With max_items <= 0
\* the result is empty and no page is requested.
C3_ModeBBudget ==
    mode = "B" =>
        /\ Len(result) <= Max(max_arg, 0)
        /\ pc \in {"get", "got"} => Len(collected) <= stream_max
        /\ outcome["submission"] # "none" =>
              /\ budget["submission"] = CeilHalf(max_arg)
              /\ Len(returned["submission"]) <= budget["submission"]
        /\ outcome["comment"] # "none" =>
              /\ outcome["submission"] \in StopReasons
              /\ budget["comment"] = max_arg - Len(returned["submission"])
              /\ Len(returned["comment"]) <= budget["comment"]
        /\ max_arg <= 0 =>
              /\ pc = "done" /\ result = <<>>
              /\ \A c \in Chains : outcome[c] = "none" /\ pages[c] = <<>>

\* C3 witness: the submissions left a part of their share unused and the
\* comments filled it.
C3_Witness ==
    /\ mode = "B" /\ pc = "done" /\ max_arg = 3
    /\ Len(returned["submission"]) = 1
    /\ Len(returned["comment"]) = 2
    /\ Len(result) = 3

Occurrences(seq, x) == Cardinality({n \in 1..Len(seq) : seq[n] = x})

SameItems(a, b) ==
    /\ Len(a) = Len(b)
    /\ \A n \in 1..Len(a) : Occurrences(a, a[n]) = Occurrences(b, a[n])

\* C4: the list get_user_history returns holds exactly the items its two
\* sub-crawls returned, ordered by timestamp descending.
C4_MergeNewestFirst ==
    (mode = "B" /\ pc = "done") =>
        /\ SameItems(result, returned["submission"] \o returned["comment"])
        /\ \A n \in 1..(Len(result) - 1) :
              result[n].created_utc >= result[n + 1].created_utc

\* C4 witness: a comment newer than a submission is moved in front of it.
C4_Witness ==
    /\ mode = "B" /\ pc = "done"
    /\ Len(returned["submission"]) = 1
    /\ Len(returned["comment"]) = 2
    /\ result # returned["submission"] \o returned["comment"]
    /\ result[1].kind = "comment"
    /\ result[3].kind = "comment"

\* C5: a 403 or a 404 ends _get at once: it is the last request of the
\* call, failure is returned and no delay is slept after it, also when
\* attempts remain.
C5_DefinitiveAbsence ==
    lastStatus \in {403, 404} =>
        /\ pc = "got"
        /\ ~html.ok
        /\ slept = attempt - 1

\* C5 witness: a 403 on the first attempt, two attempts remaining.
C5_Witness ==
    /\ pc = "got" /\ lastStatus = 403 /\ attempt = 1 /\ slept = 0
    /\ attempt < max_retries

\* C6: one _get call issues at most max_retries requests; while every
\* attempt was transient a delay was slept after each; after max_retries
\* transient attempts it returns failure; a 200 returns the body at once.
C6_BoundedRetry ==
    /\ attempt <= max_retries
    /\ pc = "get" => (slept = attempt /\ attempt < max_retries)
    /\ (pc = "got" /\ lastStatus \notin {200, 403, 404}) =>
          /\ attempt = max_retries
          /\ slept = max_retries
          /\ ~html.ok
    /\ lastStatus = 200 =>
          /\ pc = "got"
          /\ html.ok
          /\ slept = attempt - 1
          /\ html = pages[kind][Len(pages[kind])]

\* C6 witness: max_retries transient attempts, then failure.
C6_Witness ==
    /\ pc = "got" /\ lastStatus = 500
    /\ attempt = max_retries /\ slept = max_retries /\ ~html.ok

\* C7: when the fetch of page k of a chain fails, the chain stops, requests
\* no further page and returns exactly the items of pages 1..k-1.
C7_BestEffortTruncation ==
    \A c \in Chains :
        outcome[c] = "fetchFailed" =>
            /\ returned[c] = ChainItems(c)
            /\ pc \in {"get", "got"} => kind # c
            /\ c = "feed" => (pc = "done" /\ result = returned[c])
            /\ c = "comment" => pc = "done"

\* C7 witness: page 3 of the feed failed, the items of pages 1-2 are kept.
C7_Witness ==
    /\ mode = "A" /\ pc = "done"
    /\ outcome["feed"] = "fetchFailed"
    /\ Len(pages["feed"]) = 2
    /\ Len(result) = 2
    /\ result[2].id[1] = <<"new", 2>>


\* ------------------------------------------------------ claims: the scoring
InUnit(x) == RLe(Zero, x) /\ RLe(x, One)

\* C8: for any title and text, the score score_post returns lies in [0,1],
\* and so does each of the six feature values.
C8_ScoreInUnitInterval ==
    scored = "post" =>
        /\ InUnit(risk.score)
        /\ DOMAIN risk.feature_values = FeatureNames
        /\ \A f \in FeatureNames : InUnit(risk.feature_values[f])

\* C8 witness: four violent words, more than the three that saturate the
\* violent feature, in a text whose keyword density is above ten percent.
C8_Witness ==
    /\ scored = "post"
    /\ post.text = <<"kill", "kill", "kill", "kill">>
    /\ risk.feature_values["violent"] = One
    /\ risk.feature_values["keyword_density"] = One
    /\ InUnit(risk.score)

HasToken(p, set) ==
    \E w \in Words :
        /\ \/ \E i \in DOMAIN p.title : p.title[i] = w
           \/ \E j \in DOMAIN p.text : p.text[j] = w
        /\ \E k \in DOMAIN WordTokens(w) : WordTokens(w)[k] \in set

HasThreatMatch(p) ==
    LET text == ExtractText(p)
    IN  \E r \in DOMAIN THREAT_PATTERNS, i \in DOMAIN text : MatchesAt(text, i, r)

HasMarker(explanation) ==
    \E k \in DOMAIN explanation :
        explanation[k] = "no explicit harmful keywords"

\* C9: a post with no violent token, no hate token and no threat match is
\* labelled low and its explanation carries the marker "no explicit harmful
\* keywords", whatever its intensifiers and capitals; when one of the three
\* signals fired the marker is absent.
C9_NoSignalLowWithMarker ==
    scored = "post" =>
        LET signal == \/ HasToken(post, VIOLENT_KEYWORDS)
                      \/ HasToken(post, HATE_KEYWORDS)
                      \/ HasThreatMatch(post)
        IN  /\ ~signal => (risk.label = "low" /\ HasMarker(risk.explanation))
            /\ signal => ~HasMarker(risk.explanation)

\* C9 witness: no signal, but an intensifier and capitals saturate their
\* features; the post is low and carries the marker.
C9_Witness ==
    /\ scored = "post"
    /\ post.title = <<"WOW">>
    /\ post.text = <<"very", "very", "very", "WOW">>
    /\ risk.feature_values["intensifiers"] = One
    /\ risk.feature_values["all_caps"] = One
    /\ risk.label = "low"
    /\ HasMarker(risk.explanation)

\* The threshold rule, over thresholds high and medium.
ThresholdLabel(score, high, medium) ==
    IF RLe(high, score) THEN "high"
    ELSE IF RLe(medium, score) THEN "medium"
    ELSE "low"

\* C10: the label of a scored post follows from its score by the thresholds
\* of the configuration (high when score >= high_risk_threshold, medium when
\* medium_risk_threshold <= score < high_risk_threshold, low otherwise), the
\* rule and the values that label a user's score.
C10_ConfiguredThresholds ==
    /\ scored = "post" =>
          risk.label = ThresholdLabel(risk.score, cfg.high_risk_threshold,
                                      cfg.medium_risk_threshold)
    /\ scored = "users" =>
          \A u \in DOMAIN users_scored :
              users_scored[u].label =
                  ThresholdLabel(users_scored[u].score,
                                 cfg.high_risk_threshold,
                                 cfg.medium_risk_threshold)

\* --------------------------------------------------- claims: user profiles
\* The score of item i of the history of user u, computed by score_post.
HistoryScore(u, i) ==
    ScorePostOf([title |-> <<>>, text |-> users_history[u][i].text]).score

\* The fallback list of user u, empty when the table has none.
FallbackOf(u) ==
    IF u \in DOMAIN posts_fallback_scores THEN posts_fallback_scores[u]
    ELSE <<>>

\* The scores aggregated for user u: those of the history, or else the
\* fallback list.
Aggregated(u) ==
    IF users_history[u] # <<>>
    THEN [i \in DOMAIN users_history[u] |-> HistoryScore(u, i)]
    ELSE FallbackOf(u)

HasNote(explanation, note) ==
    \E k \in DOMAIN explanation : explanation[k] = note

\* C11: for every user with at least one score, score >= max_post_score,
\* max_post_score is the maximum of the aggregated scores (one of them, and
\* no smaller than any) and average_score is their mean.
C11_MaxAndMean ==
    scored = "users" =>
        \A u \in DOMAIN users_scored :
            LET r == users_scored[u]
                agg == Aggregated(u)
            IN  agg # <<>> =>
                    /\ RLe(r.max_post_score, r.score)
                    /\ \E i \in DOMAIN agg : agg[i] = r.max_post_score
                    /\ \A i \in DOMAIN agg : RLe(agg[i], r.max_post_score)
                    /\ RMul(r.average_score, <<Len(agg), 1>>) = RSum(agg)

\* C11 witness: two history items of different scores, none of them high,
\* so that the score is the maximum and lies above the mean.
C11_Witness ==
    /\ scored = "users"
    /\ "alice" \in DOMAIN users_scored
    /\ Len(users_history["alice"]) = 2
    /\ HistoryScore("alice", 1) # HistoryScore("alice", 2)
    /\ users_scored["alice"].count_high_posts = 0
    /\ users_scored["alice"].score = users_scored["alice"].max_post_score
    /\ RLt(users_scored["alice"].average_score, users_scored["alice"].score)

\* C12 as stated: every profile score_users produces has 0 <= score <= 1.
C12_UserScoreInUnitInterval ==
    scored = "users" =>
        \A u \in DOMAIN users_scored : InUnit(users_scored[u].score)

\* n/d <= m/e for non-negative fractions, compared by integer parts and
\* remainders so that no product is formed.
RECURSIVE FracLe(_, _, _, _)
FracLe(n, d, m, e) ==
    IF n \div d # m \div e THEN n \div d < m \div e
    ELSE IF n % d = 0 THEN TRUE
    ELSE IF m % e = 0 THEN FALSE
    ELSE FracLe(e, m % e, d, n % d)

\* C12, amended: every profile has 0 <= score <= 1 + 0.2*ln(1 +
\* count_high_posts); the score lies in [0,1] when no aggregated score
\* reaches high_risk_threshold.
C12_UserScoreBound ==
    scored = "users" =>
        \A u \in DOMAIN users_scored :
            LET r == users_scored[u]
            IN  /\ RLe(Zero, r.score)
                /\ LET bound == RAdd(One, RMul(<<1, 5>>,
                                                Ln1p(r.count_high_posts)))
                   IN  FracLe(r.score[1], r.score[2], bound[1], bound[2])
                /\ r.count_high_posts = 0 => RLe(r.score, One)

\* C12 witness: two high-risk history items raise the score above 1.
C12_Witness ==
    /\ scored = "users"
    /\ "bob" \in DOMAIN users_scored
    /\ Len(users_history["bob"]) = 2
    /\ users_scored["bob"].count_high_posts = 2
    /\ RLt(One, users_scored["bob"].score)

\* C13: a user of the history mapping with an empty history and no, or an
\* empty, fallback list gets the zero profile: score 0, label low, zero
\* max_post_score, average_score, count_high_posts and total_posts, and an
\* explanation that says no activity was found.
C13_NoActivityProfile ==
    scored = "users" =>
        /\ DOMAIN users_scored = DOMAIN users_history
        /\ \A u \in DOMAIN users_history :
              (users_history[u] = <<>> /\ FallbackOf(u) = <<>>) =>
                  /\ users_scored[u].username = u
                  /\ users_scored[u].score = Zero
                  /\ users_scored[u].label = "low"
                  /\ users_scored[u].max_post_score = Zero
                  /\ users_scored[u].average_score = Zero
                  /\ users_scored[u].count_high_posts = 0
                  /\ users_scored[u].total_posts = 0
                  /\ users_scored[u].explanation = <<"no activity found">>

\* C13 witness: alice has an empty history and no fallback list, bob has an
\* empty history and an empty fallback list; both get the zero profile.
C13_Witness ==
    /\ scored = "users"
    /\ DOMAIN users_history = {"alice", "bob"}
    /\ users_history["alice"] = <<>>
    /\ users_history["bob"] = <<>>
    /\ DOMAIN posts_fallback_scores = {"bob"}
    /\ posts_fallback_scores["bob"] = <<>>
    /\ users_scored["alice"].total_posts = 0
    /\ users_scored["bob"].total_posts = 0

\* C14: the fallback list of a user is aggregated exactly when the history
\* yields no scores and the list is not empty: then total_posts is its
\* length, max_post_score and average_score are its maximum and mean, the
\* label follows the thresholds (one score of 0.9 under 0.8/0.5 gives a
\* score >= 0.8 and label high) and the explanation carries the
\* fallback-only note. With a non-empty history total_posts is the number
\* of history items and the profile is the one of the same history without
\* any fallback list.
C14_FallbackSubstitution ==
    scored = "users" =>
        \A u \in DOMAIN users_scored :
            LET r == users_scored[u]
                fb == FallbackOf(u)
            IN  /\ HasNote(r.explanation, "fallback only")
                      <=> (users_history[u] = <<>> /\ fb # <<>>)
                /\ (users_history[u] = <<>> /\ fb # <<>>) =>
                      /\ r.total_posts = Len(fb)
                      /\ \E i \in DOMAIN fb : fb[i] = r.max_post_score
                      /\ \A i \in DOMAIN fb : RLe(fb[i], r.max_post_score)
                      /\ RMul(r.average_score, <<Len(fb), 1>>) = RSum(fb)
                      /\ r.label = ThresholdLabel(r.score,
                                                  cfg.high_risk_threshold,
                                                  cfg.medium_risk_threshold)
                      /\ (fb = << <<9, 10>> >>
                          /\ cfg.high_risk_threshold = <<4, 5>>
                          /\ cfg.medium_risk_threshold = <<1, 2>>) =>
                             (RLe(<<4, 5>>, r.score) /\ r.label = "high")
                /\ users_history[u] # <<>> =>
                      /\ r.total_posts = Len(users_history[u])
                      /\ HasNote(r.explanation, "history only")
                      /\ r = UserRiskOf(u, users_history[u], <<>>,
                                        cfg.high_risk_threshold,
                                        cfg.medium_risk_threshold,
                                        cfg.min_user_posts_for_confident_score)

\* C14 witness: carol's case (one fallback score of 0.9, no history, default
\* thresholds) next to a user whose history is scored although a fallback
\* list exists.
C14_Witness ==
    /\ scored = "users"
    /\ cfg = DefaultConfig
    /\ DOMAIN users_history = {"alice", "bob"}
    /\ users_history["alice"] = <<>>
    /\ FallbackOf("alice") = << <<9, 10>> >>
    /\ users_scored["alice"].label = "high"
    /\ HasNote(users_scored["alice"].explanation, "fallback only")
    /\ Len(users_history["bob"]) = 1
    /\ FallbackOf("bob") = << <<9, 10>>, <<9, 10>> >>
    /\ users_scored["bob"].total_posts = 1

\* ------------------------------------------------- claims: the pipeline steps
\* C15: a malformed record never aborts a load: whatever the file, each of
\* the four loaders returns, every well-formed record is loaded, and a
\* malformed one is loaded with defaults or skipped.
C15_MalformedRecordNeverAborts ==
    stage = "load" =>
        /\ ~load_result.raised
        /\ \A i \in DOMAIN file_records :
              WellFormed(file_records[i]) =>
                  \E k \in DOMAIN load_result.items :
                      load_result.items[k] = Loaded(i, "text", "number")

\* The posts of the visits before visit i of the collection run.
RECURSIVE CollectedBefore(_)
CollectedBefore(i) ==
    IF i <= 1 THEN <<>>
    ELSE CollectedBefore(i - 1) \o visits[i - 1].posts

\* C16: a failed crawl of one community or of one user does not abort the
\* run: the collection run does not end by an exception, it visits every
\* community while the total cap is not reached and saves the posts of all
\* its visits; the enrichment run visits every author to fetch and returns
\* the history of each.
C16_FailureIsolation ==
    /\ collect_end # "raised"
    /\ collect_end = "saved" =>
          /\ all_posts = CollectedBefore(Len(visits) + 1)
          /\ \/ Len(visits) = Len(target_subreddits)
             \/ Len(all_posts) >= limits.total_limit
    /\ enrich_end # "raised"
    /\ enrich_end = "returned" =>
          /\ Len(enrich_visits) = Len(authors_to_fetch)
          /\ \A i \in DOMAIN enrich_visits :
                /\ enrich_visits[i].username = authors_to_fetch[i]
                /\ users_enriched_new[authors_to_fetch[i]]
                      = enrich_visits[i].items

\* C17: the steps run in the order collect, enrich, score posts, score
\* users; a step starts only when the previous one has returned; when a step
\* raises no later step starts and the process exits with status 1.
C17_SequentialPass ==
    \A k \in DOMAIN step_log :
        LET e == step_log[k]
        IN  /\ e.ev = "start" =>
                  IF k = 1 THEN e.step = "Collect posts"
                  ELSE /\ step_log[k - 1].ev = "return"
                       /\ e.index = step_log[k - 1].index + 1
                       /\ <<step_log[k - 1].step, e.step>> \in
                              {<<"Collect posts", "Enrich users">>,
                               <<"Enrich users", "Score posts">>,
                               <<"Score posts", "Score users">>}
            /\ e.ev \in {"return", "raise"} =>
                  /\ k > 1
                  /\ step_log[k - 1] = [e EXCEPT !.ev = "start"]
            /\ e.ev = "raise" => (k = Len(step_log) /\ exit_status = 1)

\* C17 witness: collect and enrich returned, score posts raised: the
\* process exited with status 1 and score users never started.
C17_Witness ==
    /\ Len(step_log) = 6
    /\ step_log[6].step = "Score posts"
    /\ step_log[6].ev = "raise"
    /\ exit_status = 1
    /\ \A k \in DOMAIN step_log : step_log[k].step # "Score users"

\* The smaller of two numbers, as the claim's own min.
Smaller(a, b) == IF a <= b THEN a ELSE b

\* C18: collect_all visits the communities in configured order, asks each
\* for at most min(max_posts_per_subreddit, max_total_posts - collected so
\* far) posts, visits none once the total has reached max_total_posts, and,
\* with a client that returns at most the limit it is asked, all_posts never
\* exceeds max_total_posts and holds at most max_posts_per_subreddit posts
\* of any one visit.
C18_CollectorCaps ==
    /\ \A i \in DOMAIN visits :
          LET before == Len(CollectedBefore(i))
          IN  /\ visits[i].subreddit = target_subreddits[i]
              /\ before < limits.total_limit
              /\ visits[i].limit =
                    Smaller(limits.per_sub_limit, limits.total_limit - before)
              /\ Len(visits[i].posts) <= limits.per_sub_limit
    /\ Len(all_posts) <= limits.total_limit
    /\ collect_end # "raised" => all_posts = CollectedBefore(Len(visits) + 1)
    /\ collect_end = "saved" =>
          \/ Len(visits) = Len(target_subreddits)
          \/ Len(all_posts) >= limits.total_limit

\* C18 witness: the second community is asked for the one post that is left
\* under the total cap, which is then reached, and the third is not visited.
C18_Witness ==
    /\ client = "protocol"
    /\ collect_end = "saved"
    /\ limits = [per_sub_limit |-> 2, total_limit |-> 3]
    /\ Len(visits) = 2
    /\ Len(visits[1].posts) = 2
    /\ visits[2].limit = 1
    /\ Len(all_posts) = 3

\* C19: the client _build_client selects has the two operations of
\* RedditClient, fetch_new_posts and fetch_user_history, and collect_all
\* never ends in an unsupported-operation error.
C19_ClientInterchangeable ==
    stage = "collect" =>
        /\ {"fetch_new_posts", "fetch_user_history"} \subseteq Operations(client)
        /\ \A i \in DOMAIN visits : visits[i].outcome # "AttributeError"

\* The risk scores written for the posts of author a, in order.
ScoresWritten(a) ==
    LET own == SelectSeq(scored_records, LAMBDA rec : rec.author = a)
    IN  [i \in DOMAIN own |-> own[i].risk_score]

\* C20: the fallback lists loaded from the scored-posts table hold, for
\* every author, exactly the risk scores written for that author's posts,
\* so that an author with scored posts and an empty history gets a profile
\* derived from them, not the zero profile.
C20_FallbackRoundTrip ==
    fallback_loaded.loaded =>
        \A a \in Usernames :
            ScoresWritten(a) # <<>> =>
                /\ a \in DOMAIN fallback_loaded.scores
                /\ fallback_loaded.scores[a] = ScoresWritten(a)
                /\ UserRiskOf(a, <<>>, fallback_loaded.scores[a],
                              cfg.high_risk_threshold,
                              cfg.medium_risk_threshold,
                              cfg.min_user_posts_for_confident_score)
                      # ZeroProfile(a)

\* ------------------------------------------------------------ C21 (cache)
\* The get_user_history calls issued for username.
FetchesOf(username) ==
    Cardinality({i \in DOMAIN enrich_visits : enrich_visits[i].username = username})

\* C21: enrich_all_users issues no history fetch for a username of the
\* existing enrichment mapping and, once it has returned, has fetched exactly
\* once for every other author of the posts and for nobody else; in the
\* mapping run_enrichment saves, every previously enriched user keeps its
\* history unless a new entry exists for the same username, which then wins.
C21_EnrichmentCache ==
    stage = "enrich" =>
        /\ \A u \in DOMAIN existing : FetchesOf(u) = 0
        /\ \A u \in AuthorFields \ raw_authors : FetchesOf(u) = 0
        /\ enrich_end \in {"returned", "saved"} =>
              \A u \in (raw_authors \ {""}) \ DOMAIN existing : FetchesOf(u) = 1
        /\ enrich_end = "saved" =>
              /\ DOMAIN existing \subseteq DOMAIN combined
              /\ \A u \in DOMAIN existing :
                    combined[u] = IF u \in DOMAIN users_enriched_new
                                  THEN users_enriched_new[u]
                                  ELSE existing[u]
              /\ \A u \in DOMAIN users_enriched_new :
                    combined[u] = users_enriched_new[u]

\* A run with a cached author that is skipped and keeps its history, and
\* another author that is fetched.
C21_Witness ==
    /\ stage = "enrich" /\ enrich_end = "saved"
    /\ raw_authors = {"alice", "bob"}
    /\ DOMAIN existing = {"alice"} /\ existing["alice"] # <<>>
    /\ FetchesOf("alice") = 0 /\ FetchesOf("bob") = 1
    /\ combined["alice"] = existing["alice"]
    /\ combined["bob"] = enrich_visits[1].items /\ combined["bob"] # <<>>

\* ------------------------------------------------- C27 (empty histories)
\* C27: the mapping enrich_all_users returns has no entry for an author
\* whose history crawl returned no item.
C27_OnlyUsersWithActivity ==
    (stage = "enrich" /\ enrich_end \in {"returned", "saved"}) =>
        \A i \in DOMAIN enrich_visits :
            enrich_visits[i].items = <<>> =>
                enrich_visits[i].username \notin DOMAIN users_enriched_new

\* ------------------------------------------------------- C22 (politeness)
\* C22: whenever a client call is about to issue a page request after an
\* earlier one of the same call, request_delay_seconds was slept in between:
\* no two page requests are issued back to back.
C22_Politeness ==
    pc = "get" => since_fetch # "request"

\* ------------------------------------------------ C23 (no fetch past cap)
\* The items parsed from the first n pages of chain c.
ItemsOfFirstPages(c, n) ==
    Concat([j \in 1..n |-> ParsedItems(c, pages[c][j])])

\* C23: a chain that holds as many items as its cap (max_posts in Mode A,
\* the budget of the sub-crawl in Mode B) issues no page request; every page
\* it fetched was requested while the items of the pages before it were
\* fewer than the cap; a chain that stopped on its cap returns the first
\* cap items, in page order, of the pages it fetched (the extra items of the
\* last page are trimmed).
C23_NoFetchPastCap ==
    /\ pc = "get" => Len(collected) < budget[kind]
    /\ \A c \in Chains :
          /\ \A n \in 1..Len(pages[c]) :
                Len(ItemsOfFirstPages(c, n - 1)) < budget[c]
          /\ outcome[c] = "capReached" =>
                /\ returned[c] = Take(ChainItems(c), budget[c])
                /\ Len(returned[c]) = Max(budget[c], 0)

\* The submissions reach their budget of 2 exactly with the last item of a
\* page that has a next button, and no second page is requested; the comments
\* reach their budget of 1 with the first of the two items of a page.
C23_Witness ==
    /\ mode = "B" /\ pc = "done" /\ max_arg = 3
    /\ outcome["submission"] = "capReached"
    /\ Len(pages["submission"]) = 1
    /\ pages["submission"][1].next # NoUrl
    /\ Len(ParsedItems("submission", pages["submission"][1])) = 2
    /\ outcome["comment"] = "capReached"
    /\ Len(pages["comment"]) = 1
    /\ Len(ParsedItems("comment", pages["comment"][1])) = 2
    /\ returned["comment"] = <<ParsedItems("comment", pages["comment"][1])[1]>>

\* ------------------------------------------- C24, C25 (the page parsers)
\* The items the parser returned.
ItemsOfResult ==
    IF parser = "subreddit" THEN parse_result.posts
    ELSE IF parser = "user" THEN parse_result.items
    ELSE <<>>

\* The node of the page an item was built from (its identifier names it).
NodeOf(item) == parse_page.things[item.id[2]]

\* C24: no item a page parser returns, for a community feed page or a
\* user-history page, was built from a node marked as promoted.
C24_NoPromotedItem ==
    \A n \in 1..Len(ItemsOfResult) : ~NodeOf(ItemsOfResult[n]).promoted

\* One of the two timestamp attributes of the node can be read.
HasTimestamp(thing) ==
    thing.data_timestamp.tag = "num" \/ thing.time_datetime.tag = "num"

\* The timestamp the node carries: the numeric attribute (in seconds, from
\* milliseconds when it is beyond the magnitude threshold), else the
\* date-time attribute.
TimestampOf(thing) ==
    IF thing.data_timestamp.tag = "num"
    THEN IF thing.data_timestamp.val > MsThreshold
         THEN thing.data_timestamp.val \div MsPerSecond
         ELSE thing.data_timestamp.val
    ELSE thing.time_datetime.val

\* The nodes the user-page parser looks at: those before the first node
\* whose timestamp is older than the cutoff (all of them for a feed page).
Looked ==
    LET things == parse_page.things
        old == {i \in 1..Len(things) :
                   parser = "user" /\ HasTimestamp(things[i])
                                   /\ TimestampOf(things[i]) < parse_cutoff}
    IN  {i \in 1..Len(things) : \A j \in old : i < j}

\* The nodes an item is to be built from.
Kept ==
    {i \in Looked :
        /\ HasTimestamp(parse_page.things[i])
        /\ parse_page.things[i].fullname.some
        /\ parser = "subreddit" => ~parse_page.things[i].promoted}

\* C25: a node without readable timestamp or without identifier produces no
\* item, every returned item carries the timestamp read from its node (never
\* a default), and dropping a node stops neither the parsing of the nodes
\* after it nor the crawl: every other node still yields its item, in page
\* order, the next locator is passed on, and the user-page parser reports
\* the cutoff stop only for a node whose timestamp is older than the cutoff.
C25_UnparseableDropped ==
    parser # "none" =>
        LET items == ItemsOfResult
        IN  /\ \A n \in 1..Len(items) :
                  /\ HasTimestamp(NodeOf(items[n]))
                  /\ NodeOf(items[n]).fullname.some
                  /\ items[n].created_utc = TimestampOf(NodeOf(items[n]))
                  /\ items[n].created_utc > 0
            /\ {items[n].id[2] : n \in 1..Len(items)} = Kept
            /\ \A n \in 1..(Len(items) - 1) : items[n].id[2] < items[n + 1].id[2]
            /\ parser = "subreddit" => parse_result.next_url = parse_page.next
            /\ parser = "user" =>
                  /\ parse_result.stop <=> Looked # 1..Len(parse_page.things)
                  /\ ~parse_result.stop => parse_result.next_url = parse_page.next

\* A user-history page whose first node has no readable timestamp and
\* whose second node is recent: only the second yields an item, the parser
\* does not report the cutoff stop and passes the next locator on.
C25_Witness ==
    /\ parser = "user"
    /\ Len(parse_page.things) = 2
    /\ ~HasTimestamp(parse_page.things[1])
    /\ parse_page.things[1].time_datetime = Garbage
    /\ parse_page.things[1].fullname.some
    /\ Len(parse_result.items) = 1
    /\ parse_result.items[1].id = <<<<"submitted", 1>>, 2>>
    /\ parse_result.items[1].created_utc >= parse_cutoff
    /\ ~parse_result.stop
    /\ parse_page.next # NoUrl
    /\ parse_result.next_url = parse_page.next

\* ------------------------------------------------- C26 (provenance note)
ProvenanceNotes == {"history only", "history plus fallback", "fallback only"}

\* The provenance notes of an explanation, one per occurrence.
NotesIn(explanation) ==
    SelectSeq(explanation, LAMBDA part : part \in ProvenanceNotes)

\* C26 as stated: a user with at least one aggregated score has exactly one
\* provenance note, which is history-only for a user with history items and
\* no fallback scores, history-plus-fallback for a user with both, and
\* fallback-only for a user with fallback scores and no history item; the
\* low-confidence caveat is there exactly when total_posts is below
\* min_user_posts_for_confident_score.
C26_ThreeProvenanceNotes ==
    scored = "users" =>
        \A u \in DOMAIN users_scored :
            LET r == users_scored[u]
                h == users_history[u] # <<>>
                f == FallbackOf(u) # <<>>
            IN  (h \/ f) =>
                    /\ NotesIn(r.explanation) =
                          IF h /\ ~f THEN <<"history only">>
                          ELSE IF h /\ f THEN <<"history plus fallback">>
                          ELSE <<"fallback only">>
                    /\ HasNote(r.explanation, "low-confidence")
                          <=> r.total_posts < cfg.min_user_posts_for_confident_score

\* C26, amended: a user with at least one aggregated score has exactly one
\* provenance note: history-only when the user has history items, whether
\* or not fallback scores exist, and fallback-only otherwise; the
\* history-plus-fallback note is never produced; the low-confidence caveat
\* is there exactly when total_posts is below
\* min_user_posts_for_confident_score. A user without any score has neither.
C26_ProvenanceNote ==
    scored = "users" =>
        \A u \in DOMAIN users_scored :
            LET r == users_scored[u]
                h == users_history[u] # <<>>
                f == FallbackOf(u) # <<>>
            IN  /\ (h \/ f) =>
                      /\ NotesIn(r.explanation) =
                            IF h THEN <<"history only">> ELSE <<"fallback only">>
                      /\ HasNote(r.explanation, "low-confidence")
                            <=> r.total_posts < cfg.min_user_posts_for_confident_score
                /\ ~(h \/ f) =>
                      /\ NotesIn(r.explanation) = <<>>
                      /\ ~HasNote(r.explanation, "low-confidence")

\* A user with two history items and a fallback list gets the history-only
\* note and, two items being enough, no caveat; a user with one fallback
\* score and no history gets the fallback-only note and the caveat.
C26_Witness ==
    /\ scored = "users"
    /\ cfg.min_user_posts_for_confident_score = 2
    /\ DOMAIN users_history = {"alice", "bob"}
    /\ Len(users_history["alice"]) = 2
    /\ FallbackOf("alice") # <<>>
    /\ NotesIn(users_scored["alice"].explanation) = <<"history only">>
    /\ ~HasNote(users_scored["alice"].explanation, "low-confidence")
    /\ users_history["bob"] = <<>>
    /\ Len(FallbackOf("bob")) = 1
    /\ NotesIn(users_scored["bob"].explanation) = <<"fallback only">>
    /\ HasNote(users_scored["bob"].explanation, "low-confidence")

\* ------------------------------------------------------ C28 (termination)
\* C28: every client call that was started eventually returns, whatever
\* the target answers, and then each chain it ran has stopped through one of
\* capReached, noNextPage, cutoffHit, fetchFailed.
C28_CrawlTerminates ==
    [](mode # "none" =>
          <>(/\ pc = "done"
             /\ \A c \in Chains : outcome[c] \in StopReasons \cup {"none"}))

\* ------------------------------------------------ C29 (title counted twice)
TermSets == {VIOLENT_KEYWORDS, HATE_KEYWORDS, INTENSIFIERS}

\* min(c / 3, 1)
Clamped(c) == IF c >= 3 THEN One ELSE Rat(c, 3)

\* C29: for a feed submission that is scored, the text score_post tokenizes
\* is the title followed by the text field, which begins with the title:
\* its tokens are those of the title, twice, then those of the body, so a
\* term of the title counts two hits and a term of the body one, and the
\* violent, hate and intensifier features are computed from these counts.
C29_TitleCountedTwice ==
    scored = "feed post" =>
        LET title_tokens == Tokenize(post.title)
            body_tokens == Tokenize(body_text)
            tokens == Tokenize(ExtractText(post))
            Hits(set) == 2 * CountIn(title_tokens, set) + CountIn(body_tokens, set)
        IN  /\ Len(post.text) >= Len(post.title)
            /\ SubSeq(post.text, 1, Len(post.title)) = post.title
            /\ tokens = title_tokens \o title_tokens \o body_tokens
            /\ \A set \in TermSets : CountIn(tokens, set) = Hits(set)
            /\ risk.feature_values.violent = Clamped(Hits(VIOLENT_KEYWORDS))
            /\ risk.feature_values.hate = Clamped(Hits(HATE_KEYWORDS))
            /\ risk.feature_values.intensifiers = Clamped(Hits(INTENSIFIERS))

\* The title is "kill" and the body is "nazi": two violent hits for the
\* title's term, one hate hit for the body's.
C29_Witness ==
    /\ scored = "feed post"
    /\ post.title = <<"kill">>
    /\ body_text = <<"nazi">>
    /\ post.text = <<"kill", NL, NL, "nazi">>
    /\ risk.feature_values.violent = Rat(2, 3)
    /\ risk.feature_values.hate = Rat(1, 3)

=============================================================================
